---- MODULE Spec2Model ----
(***************************************************************************)
(* A model of ascii_webcam.converter.ASCIIConverter: construction, the     *)
(* memoised dimension planner (_calculate_dimensions under lru_cache),     *)
(* _resize_frame's planning and buffer bookkeeping, the color-scheme       *)
(* functions and the ANSI cell renderer; of ascii_webcam.app.ASCIIWebcam:   *)
(* setup, capture, display, the key commands, the SIGWINCH handler and     *)
(* run() step by step; and of ascii_webcam.status.StatusDisplay's frame    *)
(* rate.                                                                   *)
(*                                                                         *)
(* Python values are represented as follows.  None is the empty tuple <<>> *)
(* and an optional integer n is <<n>>; a pair (a, b) is <<a, b>>; a BGR    *)
(* cell is <<b, g, r>> (index 1 is numpy channel 0).  A converter object   *)
(* is an index into convs, which is its identity.  The arrays and lists a  *)
(* converter allocates are numbered in the order it allocates them; the    *)
(* number is the object's identity, 0 standing for None.                   *)
(***************************************************************************)
EXTENDS Integers, Sequences, FiniteSets, TLC

VARIABLES
    convs,      \* the ASCIIConverter objects constructed so far, by identity
    cache,      \* lru_cache of _calculate_dimensions, least recently used first
    clock,      \* number of method calls made so far on the converters
    ret,        \* what the last call returned or raised
    app,        \* the ASCIIWebcam application object, None before there is one
    stack,      \* the main thread's call stack inside run(), innermost last
    env,        \* the terminal, its signals and what run() did to it
    status      \* the StatusDisplay object and the time, None before there is one

vars == <<convs, cache, clock, ret, app, stack, env, status>>

---------------------------------------------------------------------------
(* Registries                                                              *)

\* CHAR_PRESETS: each ramp from darkest to lightest, one string per glyph.
CHAR_PRESETS ==
    [ classic  |-> <<" ", ".", ":", "-", "=", "+", "*", "#", "%", "@">>,
      blocks   |-> <<"U+2591", "U+2592", "U+2593", "U+2588">>,
      simple   |-> <<" ", ".", "*", "#">>,
      detailed |-> <<" ", ".", "\"", ",", ":", ";", "!", "~", "*", "=", "#", "$", "@">>,
      matrix   |-> <<"0", "1">>,
      dots     |-> <<"U+00B7", "U+2022", "U+25CF">>,
      lines    |-> <<"U+2500", "U+2502", "U+250C", "U+2510", "U+2514", "U+2518",
                     "U+251C", "U+2524", "U+252C", "U+2534", "U+253C">> ]

\* list(CHAR_PRESETS.keys()), in dictionary order.
available_presets ==
    <<"classic", "blocks", "simple", "detailed", "matrix", "dots", "lines">>

\* list(COLOR_SCHEMES.keys()), in dictionary order.
available_color_schemes ==
    <<"true", "neon", "matrix", "vintage", "cyberpunk">>

Range(s) == {s[i] : i \in 1..Len(s)}

None == <<>>

Min(a, b) == IF a <= b THEN a ELSE b
Max(a, b) == IF a >= b THEN a ELSE b

---------------------------------------------------------------------------
(* Arithmetic of the planner                                               *)

\* int(x) of a quotient a/b with b > 0: truncation towards zero.
TruncDiv(a, b) == IF a >= 0 THEN a \div b ELSE -((-a) \div b)

\* Triples <<new_height, frame_height, frame_width>> of this model's inputs
\* at which the IEEE double evaluation of new_height / aspect_ratio / 0.45
\* falls just below the exact quotient, an integer, so that int() yields one
\* less (9 / (20/12) / 0.45 is 11.999999999999998, not 12).  At every other
\* input of the model the double result truncates to the exact quotient's
\* integer part.
DoubleBelowQuotient == {<<9, 20, 12>>}

\* The cell-aspect factor taken as 0.5 instead of 0.45.
IntTimesHalf(new_width, fh, fw) ==
    TruncDiv(new_width * fh * 50, fw * 100)

\* int(new_width * aspect_ratio * 0.45) with aspect_ratio = fh / fw.
\* On this model's inputs the double product truncates as the exact one.
IntTimesAspect(new_width, fh, fw) ==
    TruncDiv(new_width * fh * 45, fw * 100)

\* int(new_height / aspect_ratio / 0.45) with aspect_ratio = fh / fw, fh > 0.
IntOverAspect(new_height, fh, fw) ==
    TruncDiv(new_height * fw * 100, fh * 45)
        - (IF <<new_height, fh, fw>> \in DoubleBelowQuotient THEN 1 ELSE 0)

\* The target width taken even when the source is narrower.
UpscaleWidth(width, frame_width) == width

\* new_width = min(self.width, frame_width): the target, never more than the
\* source has.
NoUpscaleWidth(width, frame_width) == Min(width, frame_width)

Returned(v) == [exc |-> "", val |-> v]
Raised(e)   == [exc |-> e, val |-> None]

\* The body of _calculate_dimensions for a converter with target width
\* `width` and target height `height` (None or <<n>>).
CalcBody(width, height, frame_width, frame_height) ==
    IF frame_width = 0
    THEN Raised("ZeroDivisionError")           \* frame_height / frame_width
    ELSE LET new_width == NoUpscaleWidth(width, frame_width) IN
         IF height # None
         THEN LET new_height == Min(height[1], frame_height) IN
              IF frame_height = 0
              THEN Raised("ZeroDivisionError") \* new_height / aspect_ratio
              ELSE LET width_by_height ==
                           IntOverAspect(new_height, frame_height, frame_width)
                   IN  Returned(<<Max(Min(new_width, width_by_height), 10),
                                  Max(new_height, 5)>>)
         ELSE LET new_height ==
                      IntTimesAspect(new_width, frame_height, frame_width)
              IN  Returned(<<Max(new_width, 10), Max(new_height, 5)>>)

---------------------------------------------------------------------------
(* functools.lru_cache(maxsize=32) around the method: keyed on the         *)
(* positional arguments (self, frame_width, frame_height); self hashes and *)
(* compares by identity.  ins and use are history fields: the call number  *)
(* at which the entry was inserted and last returned.                      *)

maxsize == 32

Key(self, fw, fh) == <<self, fw, fh>>

CacheKeys(q) == {q[i].key : i \in 1..Len(q)}

CacheIndex(q, k) == CHOOSE i \in 1..Len(q) : q[i].key = k

RemoveAt(q, i) == SubSeq(q, 1, i - 1) \o SubSeq(q, i + 1, Len(q))

\* A hit that is returned without renewing the entry's place.
CacheHitInPlace(q, k, now) ==
    [q EXCEPT ![CacheIndex(q, k)].use = now]

\* A hit moves the entry to the most recently used end.
CacheHit(q, k, now) ==
    LET i == CacheIndex(q, k) IN
    Append(RemoveAt(q, i), [q[i] EXCEPT !.use = now])

\* A miss appends the new entry, and drops the least recently used entry
\* when the cache was full.
CacheInsert(q, k, v, now) ==
    LET e == [key |-> k, val |-> v, ins |-> now, use |-> now] IN
    IF Len(q) >= maxsize THEN Append(Tail(q), e) ELSE Append(q, e)

---------------------------------------------------------------------------
(* Construction                                                            *)

\* A numpy array whose cells all hold the same value: its shape (rows,
\* columns) and that value, None while the array is as np.empty left it.
\* The frames of this model are of one solid color, so that every array the
\* pipeline derives from them is of this kind.
Array(shape, fill) == [shape |-> shape, fill |-> fill]

\* An attribute that holds None instead of an array.
NoArray == Array(None, None)

\* A row of the artifact: `cols` colored cells, each <<r, g, b, glyph>> as
\* the escape sequence shows them, and whether the color reset ends the row.
\* EmptyRow is the empty string.
Row(cols, cell) == [cols |-> cols, cell |-> cell, reset |-> TRUE]

EmptyRow == [cols |-> 0, cell |-> None, reset |-> FALSE]

\* A row whose left half of the cells are `left` and whose other cells are
\* `right`.
HalvedRow(cols, left, right) ==
    [cols |-> cols, cell |-> left, reset |-> TRUE, right |-> right]

\* _setup_color_function: the closure chosen for the scheme, and the registry
\* function it captured.
SetupColorFunction(color_scheme) ==
    IF color_scheme = "true" THEN [func |-> "true_color", scheme |-> ""]
    ELSE IF color_scheme = "matrix" THEN [func |-> "matrix_color", scheme |-> ""]
    ELSE [func |-> "optimized_color_func", scheme |-> color_scheme]

\* The scratch objects of a converter, by attribute.
BufferNames ==
    <<"resized_buffer", "gray_buffer", "char_buffer", "color_buffer",
      "intensity_buffer", "char_indices_buffer", "line_builders", "line_parts">>

\* Converter c after it has allocated new objects for the attributes in
\* `names`, in that order.
Fresh(c, names) ==
    [c EXCEPT !.ids = [n \in DOMAIN c.ids |->
                         IF \E i \in 1..Len(names) : names[i] = n
                         THEN c.allocs + (CHOOSE i \in 1..Len(names) : names[i] = n)
                         ELSE c.ids[n]],
              !.allocs = c.allocs + Len(names)]

\* The state __init__ gives a new object.
NewConverter(preset, width, height, color_scheme) ==
    [ chars                |-> CHAR_PRESETS[preset],
      width                |-> width,
      height               |-> height,
      char_range           |-> Len(CHAR_PRESETS[preset]) - 1,
      color_scheme_name    |-> color_scheme,
      last_frame_dims      |-> None,
      last_target_dims     |-> None,
      resized_buffer       |-> NoArray,
      gray_buffer          |-> NoArray,
      char_buffer          |-> NoArray,
      color_buffer         |-> NoArray,
      intensity_buffer     |-> NoArray,
      char_indices_buffer  |-> NoArray,
      line_builders        |-> <<>>,
      line_parts           |-> 0,
      color_func_vec       |-> SetupColorFunction(color_scheme),
      ids                  |-> [resized_buffer |-> 0, gray_buffer |-> 0,
                                char_buffer |-> 0, color_buffer |-> 0,
                                intensity_buffer |-> 0,
                                char_indices_buffer |-> 0,
                                line_builders |-> 1, line_parts |-> 2],
      allocs               |-> 2 ]

NoMsg == [value |-> "", valid |-> <<>>]

\* The record of a call: the method, the object, the arguments, the exception
\* raised ("" when it returned), and the value returned.  msg holds what a
\* ValueError's text names; wide holds, for a color transform, the channel
\* values (in tenths) as they were before the cast to uint8; obj is the
\* identity of the array returned, 0 when the value is not an array.
Ret(op, self, args, exc, val) ==
    [op |-> op, self |-> self, args |-> args, exc |-> exc, val |-> val,
     msg |-> NoMsg, wide |-> None, obj |-> 0]

\* The validation of line 53 left out.
AnySchemeKnown(color_scheme) == TRUE

\* color_scheme in self.COLOR_SCHEMES
KnownScheme(color_scheme) == color_scheme \in Range(available_color_schemes)

\* ASCIIConverter(preset, width, height, color_scheme)
Construct(preset, width, height, color_scheme) ==
    /\ IF preset \notin Range(available_presets)
       THEN /\ ret' = [Ret("init", 0, <<preset, width, height, color_scheme>>,
                           "ValueError", None)
                         EXCEPT !.msg = [value |-> preset,
                                         valid |-> available_presets]]
            /\ UNCHANGED convs
       ELSE IF ~KnownScheme(color_scheme)
       THEN /\ ret' = [Ret("init", 0, <<preset, width, height, color_scheme>>,
                           "ValueError", None)
                         EXCEPT !.msg = [value |-> color_scheme,
                                         valid |-> available_color_schemes]]
            /\ UNCHANGED convs
       ELSE IF color_scheme \notin Range(available_color_schemes)
       THEN \* self.COLOR_SCHEMES[color_scheme] in _setup_color_function
            /\ ret' = Ret("init", 0, <<preset, width, height, color_scheme>>,
                          "KeyError", None)
            /\ UNCHANGED convs
       ELSE /\ convs' = Append(convs,
                               NewConverter(preset, width, height, color_scheme))
            /\ ret' = Ret("init", Len(convs) + 1,
                          <<preset, width, height, color_scheme>>, "", None)
    /\ UNCHANGED <<cache, clock>>
    /\ UNCHANGED <<app, stack, env, status>>

---------------------------------------------------------------------------
(* The memoised planner                                                    *)

\* What a call self._calculate_dimensions(fw, fh) yields: the cached value
\* on a hit, the body's result otherwise.
CalcOutcome(self, fw, fh) ==
    IF Key(self, fw, fh) \in CacheKeys(cache)
    THEN Returned(cache[CacheIndex(cache, Key(self, fw, fh))].val)
    ELSE CalcBody(convs[self].width, convs[self].height, fw, fh)

\* The cache after that call: exceptions are not cached.
CalcCache(self, fw, fh) ==
    IF Key(self, fw, fh) \in CacheKeys(cache)
    THEN CacheHit(cache, Key(self, fw, fh), clock + 1)
    ELSE LET r == CalcBody(convs[self].width, convs[self].height, fw, fh) IN
         IF r.exc = ""
         THEN CacheInsert(cache, Key(self, fw, fh), r.val, clock + 1)
         ELSE cache

\* self._calculate_dimensions(frame_width, frame_height)
CalculateDimensions(self, fw, fh) ==
    /\ self \in 1..Len(convs)
    /\ LET r == CalcOutcome(self, fw, fh) IN
       ret' = Ret("plan", self, <<fw, fh>>, r.exc, r.val)
    /\ cache' = CalcCache(self, fw, fh)
    /\ clock' = clock + 1
    /\ UNCHANGED convs
    /\ UNCHANGED <<app, stack, env, status>>

\* The planner consulted for the first frame only.
FirstFrameOnly(c, fw, fh) == c.last_frame_dims = None

\* The frame-size test of _resize_frame: the planner is consulted anew when
\* the source size or the target (width, height) differs from the last call's.
DimsChanged(c, fw, fh) ==
    \/ c.last_frame_dims # <<fw, fh>>
    \/ c.last_target_dims # <<c.width, c.height>>

\* Buffers reallocated, but the row builders of an earlier grid kept.
WithBuffersKeepingRows(c, new_width, new_height) ==
    [Fresh(c, BufferNames)
       EXCEPT !.resized_buffer      = Array(<<new_height, new_width>>, None),
              !.gray_buffer         = Array(<<new_height, new_width>>, None),
              !.char_buffer         = Array(<<new_height, new_width>>, None),
              !.color_buffer        = Array(<<new_height, new_width>>, None),
              !.intensity_buffer    = Array(<<new_height, new_width>>, None),
              !.char_indices_buffer = Array(<<new_height, new_width>>, None),
              !.line_builders       = IF c.line_builders = <<>>
                                      THEN [y \in 1..new_height |-> EmptyRow]
                                      ELSE c.line_builders,
              !.line_parts          = new_height]

\* The buffers _resize_frame allocates for a grid of new_height rows and
\* new_width columns: np.empty arrays and fresh row builders.
WithBuffers(c, new_width, new_height) ==
    [Fresh(c, BufferNames)
       EXCEPT !.resized_buffer      = Array(<<new_height, new_width>>, None),
              !.gray_buffer         = Array(<<new_height, new_width>>, None),
              !.char_buffer         = Array(<<new_height, new_width>>, None),
              !.color_buffer        = Array(<<new_height, new_width>>, None),
              !.intensity_buffer    = Array(<<new_height, new_width>>, None),
              !.char_indices_buffer = Array(<<new_height, new_width>>, None),
              !.line_builders       = [y \in 1..new_height |-> EmptyRow],
              !.line_parts          = new_height]

\* Buffers allocated once and kept whatever grid is planned later.
AfterPlanningKeepingBuffers(c, fw, fh, grid) ==
    IF DimsChanged(c, fw, fh)
    THEN LET d == [c EXCEPT !.last_frame_dims  = <<fw, fh>>,
                            !.last_target_dims = <<c.width, c.height>>]
         IN  IF c.resized_buffer = NoArray
             THEN WithBuffers(d, grid[1], grid[2])
             ELSE d
    ELSE c

\* The converter after _resize_frame has planned the grid <<new_width,
\* new_height>> for a frame of fw x fh: the remembered dimensions are
\* updated, and the buffers reallocated when their shape differs.
AfterPlanning(c, fw, fh, grid) ==
    IF DimsChanged(c, fw, fh)
    THEN LET d == [c EXCEPT !.last_frame_dims  = <<fw, fh>>,
                            !.last_target_dims = <<c.width, c.height>>]
         IN  IF c.resized_buffer = NoArray
                \/ c.resized_buffer.shape # <<grid[2], grid[1]>>
             THEN WithBuffers(d, grid[1], grid[2])
             ELSE d
    ELSE c

\* cv2.resize(frame, (new_width, new_height), dst=self._resized_buffer,
\* interpolation=cv2.INTER_AREA) on a frame of one color `fill`: every cell
\* of the result is an average of equal cells.  The result is written into
\* the buffer when the buffer has the planned shape; otherwise cv2 returns an
\* array of its own and the buffer keeps what it held.
AfterResize(c, grid, fill) ==
    IF c.resized_buffer.shape = <<grid[2], grid[1]>>
    THEN [c EXCEPT !.resized_buffer.fill = fill]
    ELSE c

\* The steps of _resize_frame on a frame of shape (fh, fw, 3) and color
\* `fill`, for converter c given the planner's outcome r: the exception
\* raised ("" if none) and the converter afterwards.  The planner is called
\* before anything is assigned, so its exception leaves the converter as it
\* was; cv2.resize rejects an empty source after the bookkeeping is done.
ResizeSteps(c, r, fw, fh, fill) ==
    IF r.exc # "" THEN [exc |-> r.exc, conv |-> c]
    ELSE IF fh = 0
    THEN [exc |-> "cv2.error", conv |-> AfterPlanning(c, fw, fh, r.val)]
    ELSE [exc |-> "",
          conv |-> AfterResize(AfterPlanning(c, fw, fh, r.val), r.val, fill)]

\* self._resize_frame(frame): returns self._resized_buffer.
ResizeFrame(self, fw, fh, fill) ==
    /\ self \in 1..Len(convs)
    /\ LET s == ResizeSteps(convs[self], CalcOutcome(self, fw, fh), fw, fh, fill)
       IN  /\ convs' = [convs EXCEPT ![self] = s.conv]
           /\ ret' = [Ret("resize", self, <<fw, fh>>, s.exc,
                          IF s.exc = "" THEN s.conv.resized_buffer ELSE None)
                        EXCEPT !.obj = IF s.exc = ""
                                       THEN s.conv.ids.resized_buffer ELSE 0]
    /\ cache' = CalcCache(self, fw, fh)
    /\ clock' = clock + 1
    /\ UNCHANGED <<app, stack, env, status>>

---------------------------------------------------------------------------
(* Color transforms.  Scaled channel values are kept in tenths, which is   *)
(* exact for the factors used; on every channel value 0..255 the float32   *)
(* product truncates to the same integer as the exact product.             *)

\* The clamp left out.
Unclamped(t) == t

\* np.minimum(x, 255), on tenths.
AtMost255(t) == Min(t, 2550)

\* COLOR_SCHEMES[name](b, g, r): the triple the registry function returns, in
\* the order it returns it, in tenths.
COLOR_SCHEMES(name, b, g, r) ==
    CASE name = "true"      -> <<10 * r, 10 * g, 10 * b>>
      [] name = "neon"      -> <<AtMost255(14 * r), AtMost255(14 * g),
                                 AtMost255(12 * b)>>
      [] name = "matrix"    -> <<0, AtMost255(15 * g), 0>>
      [] name = "vintage"   -> <<AtMost255(12 * r), AtMost255(12 * g),
                                 Max(8 * b, 0)>>
      [] name = "cyberpunk" -> <<AtMost255(14 * b), AtMost255(12 * g),
                                 AtMost255(16 * r)>>

\* The (factor in tenths, channel value) pairs whose product as a Python
\* float (a double) is just below the exact product: 45 * 1.4 is
\* 62.99999999999999.  On float32 operands, as the closures pass, no product
\* of the registry falls below.
DoubleProductBelow ==
    {<<14, 45>>, <<14, 85>>, <<14, 90>>, <<14, 165>>, <<14, 170>>,
     <<14, 175>>, <<14, 180>>}

\* v * (t / 10) on an integer v, in tenths, a tenth less where the double
\* falls below.
ScalarTimes(t, v) == IF <<t, v>> \in DoubleProductBelow THEN t * v - 1 ELSE t * v

\* COLOR_SCHEMES[name](b, g, r) called on the integers of one cell: the
\* triple returned, in the order returned, in tenths.
RegistryOnCell(name, b, g, r) ==
    CASE name = "true"      -> <<10 * r, 10 * g, 10 * b>>
      [] name = "neon"      -> <<AtMost255(ScalarTimes(14, r)),
                                 AtMost255(ScalarTimes(14, g)),
                                 AtMost255(ScalarTimes(12, b))>>
      [] name = "matrix"    -> <<0, AtMost255(ScalarTimes(15, g)), 0>>
      [] name = "vintage"   -> <<AtMost255(ScalarTimes(12, r)),
                                 AtMost255(ScalarTimes(12, g)),
                                 Max(ScalarTimes(8, b), 0)>>
      [] name = "cyberpunk" -> <<AtMost255(ScalarTimes(14, b)),
                                 AtMost255(ScalarTimes(12, g)),
                                 AtMost255(ScalarTimes(16, r))>>

\* x.astype(np.uint8) of a float given in tenths: the fraction is dropped and
\* the integer kept modulo 2^8.
AsUint8(t) == (t \div 10) % 256

Narrowed(w) == <<AsUint8(w[1]), AsUint8(w[2]), AsUint8(w[3])>>

\* The color buffer a closure writes into for a frame of this shape:
\* reallocated when there is none or its shape differs.
ColorBufferFor(c, shape) ==
    IF c.color_buffer = NoArray \/ c.color_buffer.shape # shape
    THEN Array(shape, None)
    ELSE c.color_buffer

\* The converter once the closure has its buffer for a frame of this shape.
WithColorBuffer(c, shape) ==
    IF c.color_buffer = NoArray \/ c.color_buffer.shape # shape
    THEN Fresh(c, <<"color_buffer">>)
    ELSE c

\* true_color on one cell: three channel assignments in program order.  When
\* the frame is the buffer itself, each assignment reads what the earlier
\* ones wrote.
TrueColorCell(buf, f, aliased) ==
    LET Src(now) == IF aliased THEN now ELSE f
        b0 == IF buf = None THEN <<0, 0, 0>> ELSE buf
        b1 == [b0 EXCEPT ![1] = Src(b0)[3]]
        b2 == [b1 EXCEPT ![2] = Src(b1)[2]]
        b3 == [b2 EXCEPT ![3] = Src(b2)[1]]
    IN  b3

\* self._color_func_vec(frame): the array returned (val), its channel values
\* before the cast to uint8 (wide) and the converter afterwards.  `aliased`
\* says that frame is self._color_buffer.
ColorFuncVec(c, frame, aliased) ==
    LET f == frame.fill IN
    IF c.color_func_vec.func = "true_color"
    THEN LET buf  == ColorBufferFor(c, frame.shape)
             cell == TrueColorCell(buf.fill, f, aliased)
             d    == WithColorBuffer(c, frame.shape)
         IN  [conv |-> [d EXCEPT !.color_buffer = Array(frame.shape, cell)],
              val  |-> Array(frame.shape, cell),
              wide |-> <<10 * cell[1], 10 * cell[2], 10 * cell[3]>>,
              obj  |-> d.ids.color_buffer]
    ELSE IF c.color_func_vec.func = "matrix_color"
    THEN LET w == <<0, AtMost255(15 * f[2]), 0>>
         IN  \* result = np.zeros_like(frame): a new array at every call
             [conv |-> [c EXCEPT !.allocs = c.allocs + 1],
              val  |-> Array(frame.shape, Narrowed(w)),
              wide |-> w,
              obj  |-> c.allocs + 1]
    ELSE LET out == COLOR_SCHEMES(c.color_func_vec.scheme, f[1], f[2], f[3])
             w   == <<out[3], out[2], out[1]>>   \* b_out, g_out, r_out
             d   == WithColorBuffer(c, frame.shape)
         IN  [conv |-> [d EXCEPT !.color_buffer =
                                     Array(frame.shape, Narrowed(w))],
              val  |-> Array(frame.shape, Narrowed(w)),
              wide |-> w,
              obj  |-> d.ids.color_buffer]

\* converter._color_func_vec(frame) on a frame of the caller's.
ColorTransform(self, shape, fill) ==
    /\ self \in 1..Len(convs)
    /\ LET r == ColorFuncVec(convs[self], Array(shape, fill), FALSE) IN
       /\ convs' = [convs EXCEPT ![self] = r.conv]
       /\ ret' = [Ret("color", self, <<Array(shape, fill)>>, "", r.val)
                    EXCEPT !.wide = r.wide, !.obj = r.obj]
    /\ clock' = clock + 1
    /\ UNCHANGED cache
    /\ UNCHANGED <<app, stack, env, status>>

\* converter._color_func_vec(result), where result is the array the previous
\* call of converter._color_func_vec returned: the color buffer itself,
\* except for matrix_color, which returns a new array each time.
ColorTransformOfResult(self) ==
    /\ self \in 1..Len(convs)
    /\ ret.op = "color" /\ ret.self = self
    /\ LET r == ColorFuncVec(convs[self], ret.val,
                             convs[self].color_func_vec.func # "matrix_color")
       IN
       /\ convs' = [convs EXCEPT ![self] = r.conv]
       /\ ret' = [Ret("color_again", self, <<ret.val, ret.args[1]>>, "", r.val)
                    EXCEPT !.wide = r.wide, !.obj = r.obj]
    /\ clock' = clock + 1
    /\ UNCHANGED cache
    /\ UNCHANGED <<app, stack, env, status>>

---------------------------------------------------------------------------
(* The pipeline of convert_frame                                           *)

\* cv2.cvtColor(frame, cv2.COLOR_BGR2GRAY) of one 8-bit cell: OpenCV's
\* fixed-point 0.299 R + 0.587 G + 0.114 B, rounded.
Luma(cell) ==
    (cell[1] * 1868 + cell[2] * 9617 + cell[3] * 4899 + 8192) \div 16384

\* _frame_to_grayscale: cv2 writes into _gray_buffer, which is returned.
FrameToGrayscale(c, frame) ==
    IF c.gray_buffer.shape = frame.shape
    THEN [c EXCEPT !.gray_buffer.fill = <<Luma(frame.fill)>>]
    ELSE c

\* converter._frame_to_grayscale(frame) on a frame of the caller's of shape
\* (shape[1], shape[2], 3) and color `fill`: returns self._gray_buffer,
\* which is None on a converter that has not resized a frame yet, and which
\* cv2 leaves alone when its shape is not the frame's.
Grayscale(self, shape, fill) ==
    /\ self \in 1..Len(convs)
    /\ LET g == FrameToGrayscale(convs[self], Array(shape, fill)) IN
       /\ convs' = [convs EXCEPT ![self] = g]
       /\ ret' = [Ret("gray", self, <<Array(shape, fill)>>, "",
                      IF g.gray_buffer = NoArray THEN None ELSE g.gray_buffer)
                    EXCEPT !.obj = g.ids.gray_buffer]
    /\ clock' = clock + 1
    /\ UNCHANGED cache
    /\ UNCHANGED <<app, stack, env, status>>

\* The scale taken from the ramp's length instead of its last index.
CharIndexByLength(v, char_range) ==
    Max(0, Min((v * (char_range + 1)) \div 255, char_range))

\* The index _map_intensity_to_chars computes for intensity v: scaled by
\* char_range / 255, clipped to 0..char_range, floored.
CharIndex(v, char_range) == Max(0, Min((v * char_range) \div 255, char_range))

\* _map_intensity_to_chars(intensity): the index and intensity buffers are
\* reallocated when their shape differs; np.take writes the glyphs into
\* _char_buffer, which is returned.
MapIntensityToChars(c, intensity) ==
    LET i == CharIndex(intensity.fill[1], c.char_range)
        d == IF c.char_indices_buffer = NoArray
                \/ c.char_indices_buffer.shape # intensity.shape
             THEN Fresh(c, <<"char_indices_buffer", "intensity_buffer">>)
             ELSE c
    IN
    [d EXCEPT !.char_indices_buffer = Array(intensity.shape, <<i>>),
              !.intensity_buffer    = Array(intensity.shape, <<i>>),
              !.char_buffer.fill    = IF c.char_buffer.shape = intensity.shape
                                      THEN <<c.chars[i + 1]>>
                                      ELSE c.char_buffer.fill]

\* converter._map_intensity_to_chars(intensity) on an array of the caller's,
\* every cell of intensity v: returns self._char_buffer, which is None on a
\* converter that has not resized a frame yet; np.take raises ValueError
\* when _char_buffer has another shape than the indices.
MapIntensity(self, shape, v) ==
    /\ self \in 1..Len(convs)
    /\ LET m == MapIntensityToChars(convs[self], Array(shape, <<v>>))
           fits == m.char_buffer = NoArray \/ m.char_buffer.shape = shape
       IN
       /\ convs' = [convs EXCEPT ![self] = m]
       /\ ret' = Ret("map", self, <<Array(shape, <<v>>)>>,
                     IF fits THEN "" ELSE "ValueError",
                     IF m.char_buffer = NoArray \/ ~fits THEN None
                     ELSE m.char_buffer)
    /\ clock' = clock + 1
    /\ UNCHANGED cache
    /\ UNCHANGED <<app, stack, env, status>>

\* _create_ansi_text(frame, ascii_chars): the exception raised, the text
\* returned (the row builders, joined) and the converter afterwards.  Row y
\* is stored into _line_builders[y], which fails beyond the list's length.
CreateAnsiText(c, frame, ascii_chars) ==
    LET height == ascii_chars.shape[1]
        width  == ascii_chars.shape[2]
        col    == ColorFuncVec(c, frame, FALSE)
        rgb    == col.val.fill
        row    == Row(width, <<rgb[1], rgb[2], rgb[3], ascii_chars.fill[1]>>)
        n      == Len(c.line_builders)
        built  == [y \in 1..n |-> IF y <= height THEN row
                                  ELSE c.line_builders[y]]
    IN  [exc  |-> IF height > n THEN "IndexError" ELSE "",
         val  |-> built,
         conv |-> [(IF c.line_parts < height
                    THEN Fresh(col.conv, <<"line_parts">>) ELSE col.conv)
                     EXCEPT
                      !.line_parts = IF c.line_parts < height THEN height
                                     ELSE c.line_parts,
                      !.line_builders = built]]

\* The steps of convert_frame on a frame of shape (fh, fw, 3) and color
\* `fill`, for converter c given the planner's outcome r: the exception
\* raised, the text returned and the converter afterwards.
ConvertSteps(c, r, fw, fh, fill) ==
    LET s == ResizeSteps(c, r, fw, fh, fill) IN
    IF s.exc # "" THEN [exc |-> s.exc, val |-> None, conv |-> s.conv]
    ELSE LET resized == s.conv.resized_buffer
             g == FrameToGrayscale(s.conv, resized)
             m == MapIntensityToChars(g, g.gray_buffer)
             t == CreateAnsiText(m, resized, m.char_buffer)
         IN  [exc  |-> t.exc,
              val  |-> IF t.exc = "" THEN t.val ELSE None,
              conv |-> t.conv]

\* converter.convert_frame(frame) for a frame of shape (fh, fw, 3) and color
\* `fill`.
ConvertFrame(self, fw, fh, fill) ==
    /\ self \in 1..Len(convs)
    /\ LET t == ConvertSteps(convs[self], CalcOutcome(self, fw, fh), fw, fh, fill)
       IN  /\ convs' = [convs EXCEPT ![self] = t.conv]
           /\ ret' = Ret("convert", self, <<fw, fh, fill>>, t.exc, t.val)
    /\ cache' = CalcCache(self, fw, fh)
    /\ clock' = clock + 1
    /\ UNCHANGED <<app, stack, env, status>>

\* cv2.resize(..., interpolation=cv2.INTER_AREA) enlarging an axis of `src`
\* cells to `dst` cells: destination index d reads source index s and
\* s + 1, the latter with weight f (in 2048ths).  The weight is
\* (d + 1) - (s + 1) * dst / src, 0 when that is not positive and its
\* fractional part otherwise; at the last source index it is 0.
AreaSource(d, src, dst) == Min((d * src) \div dst, src - 1)

\* Every destination cell taken midway between its two source cells.
MidwayWeight(d, src, dst) == 1024

AreaWeight(d, src, dst) ==
    LET s == (d * src) \div dst
        n == (d + 1) * src - (s + 1) * dst
    IN  IF s >= src - 1 \/ n <= 0 THEN 0 ELSE ((n % src) * 2048) \div src

\* The 8-bit linear combination cv2 computes in fixed point from the four
\* neighbours, for horizontal weight a and vertical weight b.
Linear8u(a, b, s00, s01, s10, s11) ==
    ( ((2048 - b) * (((2048 - a) * s00 + a * s01) \div 16)) \div 65536
      + (b * (((2048 - a) * s10 + a * s11) \div 16)) \div 65536
      + 2 ) \div 4

\* The cell at row dy, column dx (from 0) of a 2x2 frame q = <<top row,
\* bottom row>> enlarged to rows x cols.
ResizedCell(q, dy, dx, rows, cols) ==
    LET sy == AreaSource(dy, 2, rows)
        sx == AreaSource(dx, 2, cols)
        b  == AreaWeight(dy, 2, rows)
        a  == AreaWeight(dx, 2, cols)
        ny == Min(sy + 1, 1)
        nx == Min(sx + 1, 1)
    IN  [ch \in 1..3 |->
            Linear8u(a, b, q[sy + 1][sx + 1][ch], q[sy + 1][nx + 1][ch],
                     q[ny + 1][sx + 1][ch], q[ny + 1][nx + 1][ch])]

\* The colored cell <<r, g, b, glyph>> _create_ansi_text emits for a cell of
\* the resized frame: the glyph of its luma's index, and its color as the
\* color function returns it, read in the order r, g, b.
EmittedCell(c, cell) ==
    LET col == ColorFuncVec(c, Array(<<1, 1>>, cell), FALSE).val.fill IN
    <<col[1], col[2], col[3],
      c.chars[CharIndex(Luma(cell), c.char_range) + 1]>>

\* The rows _create_ansi_text builds for a frame of shape (2, 2, 3) of the
\* four cells q, for the converter c before the call and d after its
\* buffers were sized.  The planned grid is at least 10 x 5, so the frame is
\* enlarged; for an even number of columns each row of the result is the
\* left source column repeated and then the right one.
Rows2x2(c, d, q) ==
    LET rows == d.resized_buffer.shape[1]
        cols == d.resized_buffer.shape[2]
    IN  [y \in 1..Len(d.line_builders) |->
            IF y <= rows
            THEN HalvedRow(cols,
                     EmittedCell(c, ResizedCell(q, y - 1, 0, rows, cols)),
                     EmittedCell(c, ResizedCell(q, y - 1, cols - 1, rows, cols)))
            ELSE d.line_builders[y]]

\* The converter after such a call.  The buffers then hold several values,
\* which Array does not represent: their fill is None.
After2x2(c, d, q) ==
    [d EXCEPT !.resized_buffer.fill      = None,
              !.gray_buffer.fill         = None,
              !.char_buffer.fill         = None,
              !.intensity_buffer.fill    = None,
              !.char_indices_buffer.fill = None,
              !.color_buffer.fill =
                  IF c.color_func_vec.func = "matrix_color"
                  THEN d.color_buffer.fill ELSE None,
              !.line_builders = Rows2x2(c, d, q)]

\* converter.convert_frame(frame) for a frame of shape (2, 2, 3) of the four
\* cells q.
ConvertFrame2x2(self, q) ==
    /\ self \in 1..Len(convs)
    /\ LET u == ConvertSteps(convs[self], CalcOutcome(self, 2, 2), 2, 2,
                             <<0, 0, 0>>)
       IN  /\ convs' = [convs EXCEPT ![self] = After2x2(convs[self], u.conv, q)]
           /\ ret' = Ret("convert_2x2", self, <<2, 2, q>>, u.exc,
                         IF u.exc = "" THEN convs'[self].line_builders
                         ELSE None)
    /\ cache' = CalcCache(self, 2, 2)
    /\ clock' = clock + 1
    /\ UNCHANGED <<app, stack, env, status>>

\* converter.width = width
SetWidth(self, width) ==
    /\ self \in 1..Len(convs)
    /\ convs[self].width # width
    /\ convs' = [convs EXCEPT ![self].width = width]
    /\ ret' = Ret("set", self, None, "", None)
    /\ UNCHANGED <<cache, clock>>
    /\ UNCHANGED <<app, stack, env, status>>

\* converter.height = height
SetHeight(self, height) ==
    /\ self \in 1..Len(convs)
    /\ convs[self].height # height
    /\ convs' = [convs EXCEPT ![self].height = height]
    /\ ret' = Ret("set", self, None, "", None)
    /\ UNCHANGED <<cache, clock>>
    /\ UNCHANGED <<app, stack, env, status>>

---------------------------------------------------------------------------
(* The application, ascii_webcam.app.ASCIIWebcam.  cap is None or <<s>>,   *)
(* s the condition of the cv2.VideoCapture object; error_message is None   *)
(* or <<kind>>, the kind being the prefix of the message; screen is what   *)
(* print_display painted last.                                             *)

NoScreen == [kind |-> "", msg |-> "", frame |-> None]

\* get_terminal_size: at least 40 columns and 20 rows.
TerminalSize(columns, lines) == <<Max(columns, 40), Max(lines, 20)>>

\* The state ASCIIWebcam.__init__ gives a new object, its converter being
\* the object convs[converter].
NewApp(preset, color_scheme, terminal_size, converter) ==
    [ cap           |-> None,
      preset        |-> preset,
      color_scheme  |-> color_scheme,
      show_status   |-> TRUE,
      show_help     |-> TRUE,
      frame_num     |-> 0,
      frame_rate    |-> 15,
      error_message |-> None,
      terminal_size |-> terminal_size,
      converter     |-> converter,
      screen        |-> NoScreen ]

\* create_converter: the converter for the application's current state.
CreateConverter(a) ==
    NewConverter(a.preset,
                 Max(a.terminal_size[1] - 3, 40),
                 <<IF a.show_status THEN Max(a.terminal_size[2] - 2, 10)
                   ELSE Max(a.terminal_size[2] - 1, 10)>>,
                 a.color_scheme)

\* What self.cap.read() yields: a frame only from an opened capture, and
\* from one that is opened whatever the camera does (`read`).
ReadOutcomes == {"frame", "no_frame", "raises"}

Read(cap, read) == IF cap = <<"opened">> THEN read ELSE "no_frame"

\* setup(): opens the capture and reads a test frame; `outcome` is what the
\* camera does.
SetupOutcomes == {"ok", "unopened", "no_test_frame"}

AfterSetup(a, outcome) ==
    [a EXCEPT !.cap = IF outcome = "unopened" THEN <<"unopened">>
                      ELSE <<"opened">>,
              !.error_message = IF outcome = "ok" THEN None
                                ELSE <<"Camera error">>]

Setup(outcome) ==
    /\ app # None
    /\ app.cap = None
    /\ app' = AfterSetup(app, outcome)
    /\ ret' = Ret("setup", 0, <<outcome>>,
                  IF outcome = "ok" THEN "" ELSE "CameraError", None)
    /\ UNCHANGED <<convs, cache, clock, stack, env, status>>

\* retry_camera(), which the 'r' key calls while an error is set: releases
\* the capture, runs setup again and records its failure.
RetryCamera(outcome) ==
    /\ app # None
    /\ app.error_message # None
    /\ app' = [AfterSetup(app, outcome) EXCEPT
                  !.error_message = IF outcome = "ok" THEN None
                                    ELSE <<"Camera retry failed">>]
    /\ ret' = Ret("retry_camera", 0, <<outcome>>, "", None)
    /\ UNCHANGED <<convs, cache, clock, stack, env, status>>

\* capture_frame(): the exception raised and the application afterwards.
\* Without a capture the error is raised before the try block, and
\* error_message is left as it was.
CaptureSteps(a, read) ==
    IF a.cap = None THEN [exc |-> "CameraError", app |-> a]
    ELSE IF Read(a.cap, read) = "frame" THEN [exc |-> "", app |-> a]
    ELSE [exc |-> "CameraError",
          app |-> [a EXCEPT !.error_message = <<"Frame capture error">>]]

\* capture_frame() called by itself.
CaptureFrame(read) ==
    /\ app # None
    /\ LET s == CaptureSteps(app, read) IN
       /\ app' = s.app
       /\ ret' = Ret("capture_frame", 0, <<app.cap, Read(app.cap, read)>>,
                     s.exc, IF s.exc = "" THEN <<"frame">> ELSE None)
    /\ UNCHANGED <<convs, cache, clock, stack, env, status>>

\* The frames the camera supplies.
CameraSize == <<640, 480>>

\* print_display(): paints the error message when one is set; otherwise
\* captures a frame, converts it and paints the rows.  A CameraError of
\* capture_frame is passed over; any other exception is recorded as a
\* display error.  The value recorded says whether a capture was tried,
\* what it raised, and whether convert_frame was called.
PrintDisplay(read, fill) ==
    /\ app # None
    /\ UNCHANGED <<stack, env, status>>
    /\ LET cap == CaptureSteps(app, read)
           c   == app.converter
           t   == ConvertSteps(convs[c],
                               CalcOutcome(c, CameraSize[1], CameraSize[2]),
                               CameraSize[1], CameraSize[2], fill)
           Shown(captured, raised, converted) ==
               Ret("print_display", c, <<app.cap, Read(app.cap, read)>>, "",
                   [captured |-> captured, raised |-> raised,
                    converted |-> converted])
       IN  IF app.error_message # None
           THEN /\ app' = [app EXCEPT !.screen =
                              [kind |-> "error", msg |-> app.error_message[1],
                               frame |-> None]]
                /\ ret' = Shown(FALSE, "", FALSE)
                /\ UNCHANGED <<convs, cache, clock>>
           ELSE IF cap.exc # ""
           THEN /\ app' = cap.app
                /\ ret' = Shown(TRUE, cap.exc, FALSE)
                /\ UNCHANGED <<convs, cache, clock>>
           ELSE /\ convs' = [convs EXCEPT ![c] = t.conv]
                /\ cache' = CalcCache(c, CameraSize[1], CameraSize[2])
                /\ clock' = clock + 1
                /\ ret' = Shown(TRUE, "", TRUE)
                /\ app' = IF t.exc = ""
                          THEN [app EXCEPT
                                  !.screen = [kind |-> "frame", msg |-> "",
                                              frame |-> fill],
                                  !.frame_num = app.frame_num + 1]
                          ELSE [app EXCEPT
                                  !.error_message = <<"Display error">>]

---------------------------------------------------------------------------
(* ASCIIWebcam.run() in steps.  The main thread's call stack is a sequence *)
(* of activations, innermost last: run, print_display and handle_resize,   *)
(* the handler of SIGWINCH, which Python runs on the main thread between   *)
(* two instructions of whatever is executing, so that it is pushed on top  *)
(* of any activation.  An activation holds its position pc and its locals: *)
(* conv, the converter object print_display loaded from self.converter;    *)
(* size, current_size of run or new_size of handle_resize; dims, the       *)
(* (width, height) create_converter read from self.terminal_size; and, for *)
(* run, last_size, whether old_settings was saved, and running.            *)

Frame(fn, pc) ==
    [fn |-> fn, pc |-> pc, conv |-> 0, size |-> None, dims |-> None,
     last_size |-> None, saved |-> FALSE, running |-> TRUE]

Top == stack[Len(stack)]

\* The stack with its innermost activation replaced by f.
WithTop(f) == [stack EXCEPT ![Len(stack)] = f]

\* The stack after the innermost activation returned; handle_resize, whose
\* last statement is its call of print_display, returns with it.
RECURSIVE Returning(_)
Returning(stk) ==
    IF stk = <<>> THEN stk
    ELSE LET rest == SubSeq(stk, 1, Len(stk) - 1) IN
         IF rest # <<>> /\ rest[Len(rest)].fn = "handle_resize"
                        /\ rest[Len(rest)].pc = "return"
         THEN Returning(rest)
         ELSE rest

At(fn, pc) == stack # <<>> /\ Top.fn = fn /\ Top.pc = pc

\* The environment when run() is called: the terminal as the application
\* found it, no signal pending, nothing done to the terminal yet.  log is
\* what run() did to the terminal and the camera, in order; ended is how
\* run() was left, "" while it executes.
NewEnv(terminal) ==
    [ terminal |-> terminal,
      winch    |-> FALSE,
      resizes  |-> 0,
      keys     |-> 0,
      ticks    |-> 0,
      tty      |-> "cooked",
      log      |-> <<>>,
      ended    |-> "" ]

Logged(e, what) == [e EXCEPT !.log = Append(e.log, what)]

\* create_converter for the (width, height) it read into its locals.
CreateConverterAt(a, dims) ==
    CreateConverter([a EXCEPT !.terminal_size = dims])

\* The element after x in the list, the first after the last.
NextOf(list, x) ==
    list[((CHOOSE i \in 1..Len(list) : list[i] = x) % Len(list)) + 1]

\* A step that returns nothing of interest.
Did(op, args) == Ret(op, 0, args, "", None)

\* run(), line 376: self.setup(); a CameraError leaves the try block for
\* the handler of Exception and then the finally block.
RunSetup(outcome) ==
    /\ At("run", "start")
    /\ app' = AfterSetup(app, outcome)
    /\ stack' = WithTop([Top EXCEPT !.pc = IF outcome = "ok" THEN "save"
                                           ELSE "finally"])
    /\ env' = IF outcome = "ok" THEN env ELSE Logged(env, "fatal")
    /\ ret' = Ret("setup", 0, <<outcome>>,
                  IF outcome = "ok" THEN "" ELSE "CameraError", None)
    /\ UNCHANGED <<convs, cache, clock, status>>

\* Line 378: old_settings = termios.tcgetattr(sys.stdin), which raises when
\* standard input is not a terminal.
SaveSettings(ok) ==
    /\ At("run", "save")
    /\ stack' = WithTop([Top EXCEPT !.pc = IF ok THEN "raw" ELSE "finally",
                                    !.saved = ok])
    /\ env' = Logged(env, IF ok THEN "saved" ELSE "fatal")
    /\ ret' = Did("tcgetattr", <<ok>>)
    /\ UNCHANGED <<convs, cache, clock, app, status>>

\* Lines 380-387: tty.setraw and the loop's locals.
SetRaw(ok) ==
    /\ At("run", "raw")
    /\ stack' = WithTop([Top EXCEPT !.pc = IF ok THEN "loop" ELSE "finally",
                                    !.last_size = app.terminal_size])
    /\ env' = IF ok THEN [Logged(env, "raw") EXCEPT !.tty = "raw"]
              ELSE Logged(env, "fatal")
    /\ ret' = Did("setraw", <<ok>>)
    /\ UNCHANGED <<convs, cache, clock, app, status>>

\* Lines 388-396: the loop test and the test whether a frame is due.
LoopHead(due) ==
    /\ At("run", "loop")
    /\ stack' = WithTop([Top EXCEPT !.pc = IF ~Top.running THEN "finally"
                                           ELSE IF due THEN "size"
                                           ELSE "keyboard"])
    /\ env' = IF Top.running /\ due THEN [env EXCEPT !.ticks = env.ticks + 1]
              ELSE env
    /\ ret' = Did("loop", <<Top.running, due>>)
    /\ UNCHANGED <<convs, cache, clock, app, status>>

\* Line 398: current_size = self.get_terminal_size()
ReadSize ==
    /\ At("run", "size")
    /\ stack' = WithTop([Top EXCEPT !.pc = "compare",
                           !.size = TerminalSize(env.terminal[1], env.terminal[2])])
    /\ ret' = Did("get_terminal_size", None)
    /\ UNCHANGED <<convs, cache, clock, app, env, status>>

\* Lines 399-400: the comparison with last_size and the assignment of
\* self.terminal_size.
CompareSize ==
    /\ At("run", "compare")
    /\ IF Top.size # Top.last_size
       THEN /\ app' = [app EXCEPT !.terminal_size = Top.size]
            /\ stack' = WithTop([Top EXCEPT !.pc = "create"])
       ELSE /\ app' = app
            /\ stack' = WithTop([Top EXCEPT !.pc = "display"])
    /\ ret' = Did("compare", None)
    /\ UNCHANGED <<convs, cache, clock, env, status>>

\* Line 110, in any caller of create_converter: width, height =
\* self.terminal_size.  `next` is where the caller continues.
ReadDims(fn, pc, next) ==
    /\ At(fn, pc)
    /\ stack' = WithTop([Top EXCEPT !.pc = next, !.dims = app.terminal_size])
    /\ ret' = Did("create_converter", None)
    /\ UNCHANGED <<convs, cache, clock, app, env, status>>

\* The converter already installed kept.
KeptConverter(a, n) == a.converter

\* The converter object self.converter = self.create_converter() assigns,
\* n objects having been constructed before: the new one.
Installed(a, n) == n + 1

\* Lines 112-123 and the caller's self.converter = ...: the converter is
\* constructed from the dimensions read and the current settings, and
\* installed.
Install(fn, pc, next) ==
    /\ At(fn, pc)
    /\ convs' = Append(convs, CreateConverterAt(app, Top.dims))
    /\ app' = [app EXCEPT !.converter = Installed(app, Len(convs))]
    /\ stack' = WithTop([Top EXCEPT !.pc = next,
                           !.last_size = IF fn = "run" /\ pc = "install"
                                         THEN Top.size ELSE Top.last_size])
    /\ ret' = Did("install", None)
    /\ UNCHANGED <<cache, clock, env, status>>

\* Lines 405-406: self.print_display() is called.
CallPrintDisplay ==
    /\ At("run", "display")
    /\ stack' = Append(WithTop([Top EXCEPT !.pc = "keyboard"]),
                       Frame("print_display", "enter"))
    /\ ret' = Did("call", None)
    /\ UNCHANGED <<convs, cache, clock, app, env, status>>

\* retry_camera() as the application object is left by it.
AfterRetry(a, outcome) ==
    [AfterSetup(a, outcome) EXCEPT
        !.error_message = IF outcome = "ok" THEN None
                          ELSE <<"Camera retry failed">>]

\* ASCIIWebcam.CONTROLS and a key that is none of them.
Keys == {"q", "p", "s", "t", "h", "f", "w", "r", "x"}

\* handle_keyboard() with no input available.
NoKey ==
    /\ At("run", "keyboard")
    /\ stack' = WithTop([Top EXCEPT !.pc = "loop"])
    /\ ret' = Did("key", <<"">>)
    /\ UNCHANGED <<convs, cache, clock, app, env, status>>

\* handle_keyboard() reading `key`, and lines 409-412.  The keys that
\* replace the converter continue in create_converter; `outcome` is what the
\* camera does if it is set up again.
HandleKeyboard(key, outcome) ==
    /\ At("run", "keyboard")
    /\ env' = [env EXCEPT !.keys = env.keys + 1]
    /\ stack' = WithTop([Top EXCEPT
                   !.pc = IF key \in {"p", "s", "t"} THEN "key_create"
                          ELSE "loop",
                   !.running = key # "q"])
    /\ app' = CASE key = "p" ->
                     [app EXCEPT !.preset = NextOf(available_presets, app.preset)]
                [] key = "s" ->
                     [app EXCEPT !.color_scheme =
                         NextOf(available_color_schemes, app.color_scheme)]
                [] key = "t" -> [app EXCEPT !.show_status = ~app.show_status]
                [] key = "h" -> [app EXCEPT !.show_help = ~app.show_help]
                [] key = "f" -> [app EXCEPT !.frame_rate = 15]
                [] key = "w" -> [app EXCEPT !.frame_rate = 5]
                [] key = "r" /\ app.error_message # None ->
                     AfterRetry(app, outcome)
                [] OTHER -> app
    /\ ret' = IF key = "r" /\ app.error_message # None
              THEN Did("retry_camera", <<outcome>>)
              ELSE Did("key", <<key>>)
    /\ UNCHANGED <<convs, cache, clock, status>>

\* The restoration left out.
NotRestored(e, saved) == e

\* The environment after lines 423-427: the terminal settings are restored
\* if they were saved.
Restored(e, saved) ==
    IF saved THEN [Logged(e, "restored") EXCEPT !.tty = "cooked"] ELSE e

\* The finally block up to cleanup.
Restore ==
    /\ At("run", "finally")
    /\ env' = Restored(env, Top.saved)
    /\ stack' = WithTop([Top EXCEPT !.pc = "cleanup"])
    /\ ret' = Did("finally", None)
    /\ UNCHANGED <<convs, cache, clock, app, status>>

\* cleanup(), line 428: the capture is released if there is one, and run()
\* returns.
Cleanup ==
    /\ At("run", "cleanup")
    /\ app' = IF app.cap # None THEN [app EXCEPT !.cap = <<"released">>]
              ELSE app
    /\ env' = [Logged(IF app.cap # None THEN Logged(env, "released") ELSE env,
                      "cleanup")
                 EXCEPT !.ended = "returned"]
    /\ stack' = <<>>
    /\ ret' = Did("cleanup", None)
    /\ UNCHANGED <<convs, cache, clock, status>>

\* The test of line 296 left out.
ErrorNeverSet(a) == FALSE

\* Line 296: self.error_message is not None
ErrorSet(a) == a.error_message # None

\* print_display(), lines 291-301: with an error message set the message
\* is painted and the method returns.
PdEnter ==
    /\ At("print_display", "enter")
    /\ IF ErrorSet(app)
       THEN /\ app' = [app EXCEPT !.screen =
                          [kind |-> "error", msg |-> app.error_message[1],
                           frame |-> None]]
            /\ stack' = Returning(stack)
       ELSE /\ app' = app
            /\ stack' = WithTop([Top EXCEPT !.pc = "load"])
    /\ ret' = Did("print_display", <<ErrorSet(app)>>)
    /\ UNCHANGED <<convs, cache, clock, env, status>>

\* Line 306, first the object: self.converter is loaded.
PdLoad ==
    /\ At("print_display", "load")
    /\ stack' = WithTop([Top EXCEPT !.pc = "capture", !.conv = app.converter])
    /\ ret' = Did("load", None)
    /\ UNCHANGED <<convs, cache, clock, app, env, status>>

\* Line 306, then the argument: self.capture_frame().  Its CameraError is
\* passed over at line 360 and print_display returns.
PdCapture(read) ==
    /\ At("print_display", "capture")
    /\ LET s == CaptureSteps(app, read) IN
       /\ app' = s.app
       /\ stack' = IF s.exc # "" THEN Returning(stack)
                   ELSE WithTop([Top EXCEPT !.pc = "convert"])
       /\ ret' = Ret("capture_frame", 0, <<app.cap, Read(app.cap, read)>>,
                     s.exc, None)
    /\ UNCHANGED <<convs, cache, clock, env, status>>

\* Line 306, the call: convert_frame starts on the converter loaded.
PdConvertStart ==
    /\ At("print_display", "convert")
    /\ stack' = WithTop([Top EXCEPT !.pc = "converting"])
    /\ ret' = Ret("convert_start", Top.conv, None, "", None)
    /\ UNCHANGED <<convs, cache, clock, app, env, status>>

\* The frame of the camera.
CameraFill == <<10, 100, 200>>

\* convert_frame returns or raises, and lines 307-364: the rows are
\* painted and frame_num is incremented, or the display error is recorded.
PdConvertEnd ==
    /\ At("print_display", "converting")
    /\ LET c == Top.conv
           t == ConvertSteps(convs[c],
                             CalcOutcome(c, CameraSize[1], CameraSize[2]),
                             CameraSize[1], CameraSize[2], CameraFill)
       IN  /\ convs' = [convs EXCEPT ![c] = t.conv]
           /\ ret' = Ret("convert_end", c, None, t.exc, None)
           /\ app' = IF t.exc = ""
                     THEN [app EXCEPT
                             !.screen = [kind |-> "frame", msg |-> "",
                                         frame |-> CameraFill],
                             !.frame_num = app.frame_num + 1]
                     ELSE [app EXCEPT !.error_message = <<"Display error">>]
    /\ cache' = CalcCache(Top.conv, CameraSize[1], CameraSize[2])
    /\ clock' = clock + 1
    /\ stack' = Returning(stack)
    /\ UNCHANGED <<env, status>>

\* The terminal is resized: SIGWINCH becomes pending.
ResizeTerminal(size) ==
    /\ stack # <<>>
    /\ size # env.terminal
    /\ env' = [env EXCEPT !.terminal = size, !.winch = TRUE,
                          !.resizes = env.resizes + 1]
    /\ ret' = Did("", None)
    /\ UNCHANGED <<convs, cache, clock, app, stack, status>>

\* The pending SIGWINCH is delivered: handle_resize is called on top of
\* whatever is executing.
Deliver ==
    /\ stack # <<>>
    /\ env.winch
    /\ env' = [env EXCEPT !.winch = FALSE]
    /\ stack' = Append(stack, Frame("handle_resize", "size"))
    /\ ret' = Did("SIGWINCH", None)
    /\ UNCHANGED <<convs, cache, clock, app, status>>

\* handle_resize, line 128: new_size = self.get_terminal_size()
HSize ==
    /\ At("handle_resize", "size")
    /\ stack' = WithTop([Top EXCEPT !.pc = "compare",
                           !.size = TerminalSize(env.terminal[1], env.terminal[2])])
    /\ ret' = Did("get_terminal_size", None)
    /\ UNCHANGED <<convs, cache, clock, app, env, status>>

\* Lines 131-132: the comparison with self.terminal_size and its
\* assignment; nothing else is done for an unchanged size.
HCompare ==
    /\ At("handle_resize", "compare")
    /\ IF Top.size # app.terminal_size
       THEN /\ app' = [app EXCEPT !.terminal_size = Top.size]
            /\ stack' = WithTop([Top EXCEPT !.pc = "create"])
       ELSE /\ app' = app
            /\ stack' = Returning(stack)
    /\ ret' = Did("compare", None)
    /\ UNCHANGED <<convs, cache, clock, env, status>>

\* Line 136: self.print_display() is called.
HCall ==
    /\ At("handle_resize", "call")
    /\ stack' = Append(WithTop([Top EXCEPT !.pc = "return"]),
                       Frame("print_display", "enter"))
    /\ ret' = Did("call", None)
    /\ UNCHANGED <<convs, cache, clock, app, env, status>>

\* SIGINT is delivered: KeyboardInterrupt is raised in whatever is
\* executing.  No activation but run handles it; in the try block of run it
\* is handled at line 417 and the finally block follows, in the finally
\* block it leaves run().
Interrupt ==
    /\ stack # <<>>
    /\ IF stack[1].pc \in {"finally", "cleanup"}
       THEN /\ stack' = <<>>
            /\ env' = [Logged(env, "KeyboardInterrupt") EXCEPT
                          !.ended = "KeyboardInterrupt"]
       ELSE /\ stack' = <<[stack[1] EXCEPT !.pc = "finally"]>>
            /\ env' = Logged(env, "interrupted")
    /\ ret' = Did("SIGINT", None)
    /\ UNCHANGED <<convs, cache, clock, app, status>>

---------------------------------------------------------------------------
(* The status display, ascii_webcam.status.StatusDisplay.  Times are in    *)
(* milliseconds; `now` is what time.time() returns.  fps is the quotient   *)
(* num / den of a frame count by a time in seconds, kept as the pair of    *)
(* the count times 1000 and the time in milliseconds.                      *)

Quotient(frames, millis) == [num |-> frames * 1000, den |-> millis]

\* StatusDisplay.__init__ at time `now`; fps is 0.0.
NewStatus(now) ==
    [ now             |-> now,
      last_frame_time |-> now,
      frame_count     |-> 0,
      fps             |-> Quotient(0, 1000) ]

\* _calculate_fps: counts the frame, then, a second or more after
\* last_frame_time, divides the count by the time elapsed and starts over.
AfterCalculateFps(st) ==
    LET counted == [st EXCEPT !.frame_count = st.frame_count + 1]
        elapsed == st.now - st.last_frame_time
    IN  IF elapsed >= 1000
        THEN [counted EXCEPT !.fps = Quotient(counted.frame_count, elapsed),
                             !.frame_count = 0,
                             !.last_frame_time = st.now]
        ELSE counted

\* status._calculate_fps(); the call recorded keeps frame_count as it was
\* before the call and the time elapsed since last_frame_time.
CalculateFps ==
    /\ status # None
    /\ status' = AfterCalculateFps(status)
    /\ ret' = Ret("calculate_fps", 0,
                  <<status.frame_count, status.now - status.last_frame_time>>,
                  "", None)
    /\ clock' = clock + 1
    /\ UNCHANGED <<convs, cache, app, stack, env>>

\* status.frame_count = n, as a caller assigns it.
SetFrameCount(n) ==
    /\ status # None
    /\ status' = [status EXCEPT !.frame_count = n]
    /\ ret' = Ret("set", 0, None, "", None)
    /\ UNCHANGED <<convs, cache, clock, app, stack, env>>

\* status.last_frame_time = time.time() - back
SetLastFrameTime(back) ==
    /\ status # None
    /\ status' = [status EXCEPT !.last_frame_time = status.now - back]
    /\ ret' = Ret("set", 0, None, "", None)
    /\ UNCHANGED <<convs, cache, clock, app, stack, env>>

\* Time passes.
Advance(millis) ==
    /\ status # None
    /\ status' = [status EXCEPT !.now = status.now + millis]
    /\ ret' = Ret("", 0, None, "", None)
    /\ UNCHANGED <<convs, cache, clock, app, stack, env>>

---------------------------------------------------------------------------
(* Bounds and inputs                                                       *)

MaxObjs  == 1
MaxCalls == 2

\* Source frame sizes <<width, height>>.
Sizes == {<<640, 480>>, <<200, 100>>, <<12, 20>>, <<4, 3>>,
          <<0, 480>>, <<640, 0>>, <<0, 0>>}

TargetWidths  == {8, 20, 80}
TargetHeights == {None, <<3>>, <<9>>, <<24>>}

Init ==
    /\ convs = <<>>
    /\ cache = <<>>
    /\ clock = 0
    /\ ret = Ret("", 0, None, "", None)
    /\ app = <<>>
    /\ stack = <<>>
    /\ env = <<>>
    /\ status = <<>>

\* The planner specification: converters of every valid configuration, each
\* asked to plan frames of every size.
NextDims ==
    \/ \E W \in TargetWidths, H \in TargetHeights :
           /\ Len(convs) < MaxObjs
           /\ Construct("classic", W, H, "true")
    \/ \E self \in 1..Len(convs), s \in Sizes :
           /\ clock < MaxCalls
           /\ CalculateDimensions(self, s[1], s[2])

SpecDims == Init /\ [][NextDims]_vars

\* The converter specification: converters are constructed, their public
\* width and height attributes reassigned, and frames resized.
Next ==
    \/ \E W \in TargetWidths, H \in TargetHeights :
           /\ Len(convs) < MaxObjs
           /\ Construct("classic", W, H, "true")
    \/ \E self \in 1..Len(convs), W \in TargetWidths : SetWidth(self, W)
    \/ \E self \in 1..Len(convs), H \in TargetHeights : SetHeight(self, H)
    \/ \E self \in 1..Len(convs), s \in Sizes :
           /\ clock < MaxCalls
           /\ ResizeFrame(self, s[1], s[2], <<0, 0, 0>>)

Spec == Init /\ [][Next]_vars

\* The cache specification: several default converters plan frames of more
\* distinct sizes than the cache holds.  The k-th distinct request is made by
\* converter ((k-1) mod CacheConvs) + 1 for the 4:3 frame size number
\* ((k-1) div CacheConvs) + 1, up to Overflow requests beyond the capacity;
\* the requests numbered in Repeated may each be made a second time while
\* their entry is cached.
CacheConvs == 2
Overflow   == 2
Repeated   == {1, 2}

NthKey(k) ==
    LET n == ((k - 1) \div CacheConvs) + 1 IN
    Key(((k - 1) % CacheConvs) + 1, 16 * n, 12 * n)

InitCache ==
    /\ convs = [i \in 1..CacheConvs |-> NewConverter("classic", 80, None, "true")]
    /\ cache = <<>>
    /\ clock = 0
    /\ ret = Ret("", 0, None, "", None)
    /\ app = <<>>
    /\ stack = <<>>
    /\ env = <<>>
    /\ status = <<>>

\* The number of distinct requests made so far.
Requested ==
    LET keys == CacheKeys(cache) IN
    IF cache = <<>> THEN 0
    ELSE CHOOSE k \in 1..(maxsize + Overflow) :
             /\ NthKey(k) \in keys
             /\ \A j \in (k + 1)..(maxsize + Overflow) : NthKey(j) \notin keys

NextCache ==
    \/ /\ Requested < maxsize + Overflow
       /\ LET k == NthKey(Requested + 1) IN CalculateDimensions(k[1], k[2], k[3])
    \/ \E h \in Repeated :
           /\ NthKey(h) \in CacheKeys(cache)
           /\ LET e == cache[CacheIndex(cache, NthKey(h))] IN e.use = e.ins
           /\ CalculateDimensions(NthKey(h)[1], NthKey(h)[2], NthKey(h)[3])

SpecCache == InitCache /\ [][NextCache]_vars

\* The construction specification: the constructor is called with names in
\* and out of the registries and with positive and non-positive widths, and
\* the converters obtained convert frames.  Every preset is tried with the
\* default scheme, every scheme with the default preset, and the unknown
\* presets with every scheme.
PresetNames == Range(available_presets) \cup {"bogus", "neon"}
SchemeNames == Range(available_color_schemes) \cup {"bogus", "classic"}

NextInit ==
    \/ \E preset \in PresetNames, W \in {0, 80}, scheme \in SchemeNames :
           /\ Len(convs) < MaxObjs
           /\ \/ preset = "classic"
              \/ scheme = "true"
              \/ preset \notin Range(available_presets)
           /\ Construct(preset, W, None, scheme)
    \/ \E self \in 1..Len(convs), fill \in {<<0, 0, 0>>, <<255, 255, 255>>} :
           /\ clock < MaxCalls
           /\ ConvertFrame(self, 4, 3, fill)

SpecInit == Init /\ [][NextInit]_vars

\* The color specification: one converter of each scheme, as
\* ASCIIConverter(color_scheme=s) constructs it.  Its color function is
\* applied to a frame and then to its own result, or it converts a frame.
\* The cells are every gray level and the colors of the test frame.
Cells ==
    {<<v, v, v>> : v \in 0..255}
        \cup {<<0, 0, 255>>, <<0, 255, 0>>, <<255, 0, 0>>, <<255, 255, 0>>,
              <<255, 0, 255>>, <<0, 255, 255>>, <<10, 100, 200>>,
              <<200, 100, 10>>}

InitColor ==
    /\ convs = [i \in 1..Len(available_color_schemes) |->
                   NewConverter("classic", 80, None, available_color_schemes[i])]
    /\ cache = <<>>
    /\ clock = 0
    /\ ret = Ret("", 0, None, "", None)
    /\ app = <<>>
    /\ stack = <<>>
    /\ env = <<>>
    /\ status = <<>>

NextColor ==
    \/ \E self \in 1..Len(convs), cell \in Cells :
           /\ ret.op = ""
           /\ ColorTransform(self, <<4, 4>>, cell)
    \/ \E self \in 1..Len(convs) : ColorTransformOfResult(self)
    \/ \E self \in 1..Len(convs), cell \in Cells :
           /\ ret.op = ""
           /\ ConvertFrame(self, 4, 3, cell)

SpecColor == InitColor /\ [][NextColor]_vars

\* The ramp specification: one converter of each preset, as
\* ASCIIConverter(preset=p) constructs it, maps an array of each intensity
\* or converts a gray frame of each level.
InitRamp ==
    /\ convs = [i \in 1..Len(available_presets) |->
                   NewConverter(available_presets[i], 80, None, "true")]
    /\ cache = <<>>
    /\ clock = 0
    /\ ret = Ret("", 0, None, "", None)
    /\ app = <<>>
    /\ stack = <<>>
    /\ env = <<>>
    /\ status = <<>>

NextRamp ==
    \/ \E self \in 1..Len(convs), v \in 0..255 :
           /\ ret.op = ""
           /\ MapIntensity(self, <<1, 2>>, v)
    \/ \E self \in 1..Len(convs), v \in 0..255 :
           /\ ret.op = ""
           /\ ConvertFrame(self, 4, 3, <<v, v, v>>)

SpecRamp == InitRamp /\ [][NextRamp]_vars

\* The frame specification: a converter of any scheme, its configuration
\* never reassigned, is given frames of several sizes one after the other:
\* two small sizes planned at the same minimum grid, a larger one, and two
\* of no area.  Its color function and its planner are also called directly.
FrameSizes == {<<4, 3>>, <<8, 6>>, <<200, 100>>, <<640, 0>>, <<0, 480>>}
Fills      == {<<0, 0, 0>>, <<10, 100, 200>>}
Shapes     == {<<10, 10>>, <<20, 20>>}

Red   == <<0, 0, 255>>
Green == <<0, 255, 0>>
Blue  == <<255, 0, 0>>
Black == <<0, 0, 0>>
Quads == {<<<<Red, Black>>, <<Black, Green>>>>,
          <<<<Blue, Black>>, <<Black, Green>>>>}

InitFrames ==
    /\ \E scheme \in Range(available_color_schemes) :
           \/ convs = <<NewConverter("classic", 80, None, scheme)>>
           \/ convs = <<NewConverter("matrix", 2, None, scheme)>>
    /\ cache = <<>>
    /\ clock = 0
    /\ ret = Ret("", 0, None, "", None)
    /\ app = <<>>
    /\ stack = <<>>
    /\ env = <<>>
    /\ status = <<>>

NextFrames ==
    \/ \E self \in 1..Len(convs), sz \in FrameSizes, fill \in Fills :
           /\ clock < MaxCalls
           /\ ConvertFrame(self, sz[1], sz[2], fill)
    \/ \E self \in 1..Len(convs), shape \in Shapes, fill \in Fills :
           /\ clock < MaxCalls
           /\ ColorTransform(self, shape, fill)
    \/ \E self \in 1..Len(convs), sz \in FrameSizes :
           /\ clock < MaxCalls
           /\ CalculateDimensions(self, sz[1], sz[2])
    \/ \E self \in 1..Len(convs), q \in Quads :
           /\ clock < MaxCalls
           /\ ConvertFrame2x2(self, q)

SpecFrames == InitFrames /\ [][NextFrames]_vars

\* The stage specification: a converter, fresh at first, has its stage
\* operations called directly on arrays of the caller's, before and after
\* it resized frames.
StageShapes == {<<5, 10>>, <<10, 10>>}
Levels      == {0, 128, 255}

InitStages ==
    /\ \E preset \in {"classic", "matrix"} :
           convs = <<NewConverter(preset, 80, None, "true")>>
    /\ cache = <<>>
    /\ clock = 0
    /\ ret = Ret("", 0, None, "", None)
    /\ app = <<>>
    /\ stack = <<>>
    /\ env = <<>>
    /\ status = <<>>

NextStages ==
    \/ \E self \in 1..Len(convs), shape \in StageShapes, fill \in Fills :
           /\ clock < MaxCalls
           /\ Grayscale(self, shape, fill)
    \/ \E self \in 1..Len(convs), shape \in StageShapes, v \in Levels :
           /\ clock < MaxCalls
           /\ MapIntensity(self, shape, v)
    \/ \E self \in 1..Len(convs), sz \in {<<4, 3>>, <<200, 100>>},
          fill \in Fills :
           /\ clock < MaxCalls
           /\ ResizeFrame(self, sz[1], sz[2], fill)

SpecStages == InitStages /\ [][NextStages]_vars

\* The twin specification: two converters of the same configuration, one
\* per closure kind, convert valid frames and plan, in any interleaving.
TwinCalls == 3
TwinSizes == {<<4, 3>>, <<200, 100>>}

InitTwins ==
    /\ \E scheme \in {"true", "matrix", "neon"} :
           convs = <<NewConverter("classic", 80, None, scheme),
                     NewConverter("classic", 80, None, scheme)>>
    /\ cache = <<>>
    /\ clock = 0
    /\ ret = Ret("", 0, None, "", None)
    /\ app = <<>>
    /\ stack = <<>>
    /\ env = <<>>
    /\ status = <<>>

NextTwins ==
    \/ \E self \in 1..Len(convs), sz \in TwinSizes, fill \in Fills :
           /\ clock < TwinCalls
           /\ ConvertFrame(self, sz[1], sz[2], fill)
    \/ \E self \in 1..Len(convs), sz \in TwinSizes :
           /\ clock < TwinCalls
           /\ CalculateDimensions(self, sz[1], sz[2])

SpecTwins == InitTwins /\ [][NextTwins]_vars

\* The application specification: an application constructed in a terminal
\* of 80 columns and 24 rows sets up its camera, captures frames and paints
\* the display; the camera may fail at any time.
InitApp ==
    /\ LET a == NewApp("classic", "true", TerminalSize(80, 24), 1) IN
       /\ app = a
       /\ convs = <<CreateConverter(a)>>
    /\ cache = <<>>
    /\ clock = 0
    /\ ret = Ret("", 0, None, "", None)
    /\ stack = <<>>
    /\ env = <<>>
    /\ status = <<>>

NextApp ==
    \/ \E outcome \in SetupOutcomes : Setup(outcome)
    \/ \E outcome \in SetupOutcomes : RetryCamera(outcome)
    \/ \E read \in ReadOutcomes : CaptureFrame(read)
    \/ \E read \in ReadOutcomes, fill \in Fills :
           /\ clock < MaxCalls
           /\ PrintDisplay(read, fill)

SpecApp == InitApp /\ [][NextApp]_vars

\* The status specification: a status display counts frames as time
\* passes; a caller may set the count and the start of the window.
MaxMillis   == 3000
MaxFpsCalls == 3
Delays      == {500, 1000}
FrameCounts == {0, 30}

InitStatus ==
    /\ status = NewStatus(1000)
    /\ convs = <<>>
    /\ cache = <<>>
    /\ clock = 0
    /\ ret = Ret("", 0, None, "", None)
    /\ app = <<>>
    /\ stack = <<>>
    /\ env = <<>>

NextStatus ==
    \/ clock < MaxFpsCalls /\ CalculateFps
    \/ \E n \in FrameCounts : SetFrameCount(n)
    \/ SetLastFrameTime(1000)
    \/ \E d \in Delays : status.now + d <= MaxMillis /\ Advance(d)

SpecStatus == InitStatus /\ [][NextStatus]_vars

\* The run specification: run() is called on an application constructed in
\* a terminal of 80 columns and 24 rows; the terminal is resized, keys are
\* pressed, the camera fails and SIGINT arrives at any point.  MaxEvents
\* bounds the resizes, the keys read and the frames due, taken together.
MaxEvents  == 2
Events     == env.resizes + env.keys + env.ticks
TerminalSizes == {<<80, 24>>, <<100, 30>>}
Outcomes   == {"ok", "no_test_frame"}
Reads      == {"frame", "no_frame"}

InitRun ==
    /\ LET a == NewApp("classic", "true", TerminalSize(80, 24), 1) IN
       /\ app = a
       /\ convs = <<CreateConverter(a)>>
    /\ stack = <<Frame("run", "start")>>
    /\ env = NewEnv(<<80, 24>>)
    /\ cache = <<>>
    /\ clock = 0
    /\ ret = Ret("", 0, None, "", None)
    /\ status = <<>>

NextRun ==
    \/ \E outcome \in Outcomes : RunSetup(outcome)
    \/ \E ok \in BOOLEAN : SaveSettings(ok)
    \/ \E ok \in BOOLEAN : SetRaw(ok)
    \/ \E due \in BOOLEAN : (due => Events < MaxEvents) /\ LoopHead(due)
    \/ ReadSize
    \/ CompareSize
    \/ ReadDims("run", "create", "install")
    \/ Install("run", "install", "display")
    \/ CallPrintDisplay
    \/ NoKey
    \/ \E key \in Keys, outcome \in Outcomes :
           /\ Events < MaxEvents
           /\ key # "r" => outcome = "ok"
           /\ HandleKeyboard(key, outcome)
    \/ ReadDims("run", "key_create", "key_install")
    \/ Install("run", "key_install", "loop")
    \/ Restore
    \/ Cleanup
    \/ PdEnter
    \/ PdLoad
    \/ \E read \in Reads : PdCapture(read)
    \/ PdConvertStart
    \/ PdConvertEnd
    \/ \E size \in TerminalSizes :
           /\ Events < MaxEvents
           /\ ResizeTerminal(size)
    \/ Deliver
    \/ HSize
    \/ HCompare
    \/ ReadDims("handle_resize", "create", "install")
    \/ Install("handle_resize", "install", "call")
    \/ HCall
    \/ Interrupt

SpecRun == InitRun /\ [][NextRun]_vars

---------------------------------------------------------------------------
(* Claims about the dimension planner                                      *)

PlanReturned == ret.op = "plan" /\ ret.exc = ""

\* The algorithm of the specification, step by step, on a source w x h with
\* target width W and optional target height H: floor of a double quotient.
AlgorithmGrid(W, H, w, h) ==
    LET gridHeightH == Min(H[1], h)
        widthBound  == (gridHeightH * w * 100) \div (h * 45)
                         - (IF <<gridHeightH, h, w>> \in DoubleBelowQuotient
                            THEN 1 ELSE 0)
        gridWidth   == IF H = None THEN Min(W, w)
                       ELSE Min(Min(W, w), widthBound)
        gridHeight  == IF H = None THEN (gridWidth * h * 45) \div (w * 100)
                       ELSE gridHeightH
    IN  <<IF gridWidth < 10 THEN 10 ELSE gridWidth,
          IF gridHeight < 5 THEN 5 ELSE gridHeight>>

ValidTarget(c) == c.width > 0 /\ (c.height = None \/ c.height[1] > 0)

\* C2 as stated: for every source (w,h) with w,h > 0 and every valid target
\* configuration the planner returns width >= 10, height >= 5, and neither a
\* width above the source width nor a height above the source height.
C2_NeverBelowMinimumNorAboveSource ==
    (PlanReturned /\ ret.args[1] > 0 /\ ret.args[2] > 0
        /\ ValidTarget(convs[ret.self])) =>
        /\ ret.val[1] >= 10 /\ ret.val[2] >= 5
        /\ ret.val[1] <= ret.args[1] /\ ret.val[2] <= ret.args[2]

\* C2 amended: the planner returns width >= 10 and height >= 5, and exceeds
\* the source only where those minimums raise it: width <= max(w, 10) and
\* height <= max(h, 5).
C2_MinimumsAndNoUpscaleBeyondThem ==
    (PlanReturned /\ ret.args[1] > 0 /\ ret.args[2] > 0
        /\ ValidTarget(convs[ret.self])) =>
        /\ ret.val[1] >= 10 /\ ret.val[2] >= 5
        /\ ret.val[1] <= Max(ret.args[1], 10)
        /\ ret.val[2] <= Max(ret.args[2], 5)

\* A 12x20 source was planned for a wider target: the width stays 12.
C2_Witness ==
    /\ PlanReturned
    /\ ret.args = <<12, 20>>
    /\ convs[ret.self].width > 12
    /\ convs[ret.self].height = None
    /\ ret.val[1] = 12

\* C5: planning a zero-area source frame (width 0 or height 0) fails with an
\* error and yields no grid dimensions, whatever the target configuration.
C5_ZeroAreaSourceFails ==
    (ret.op = "plan" /\ (ret.args[1] = 0 \/ ret.args[2] = 0)) =>
        (ret.exc # "" /\ ret.val = None)


---------------------------------------------------------------------------
(* Claims about the dimension cache                                        *)

\* C3: the dimension cache is keyed on the source and on the target
\* dimensions: a conversion after the converter's target width or height
\* changed plans its grid from the new target values, and a lookup never
\* returns a grid computed under another target for the same source size.
C3_GridPlannedFromCurrentTarget ==
    (ret.op = "resize" /\ ret.exc = "") =>
        LET grid == CalcBody(convs[ret.self].width, convs[ret.self].height,
                             ret.args[1], ret.args[2]).val
        IN  ret.val.shape = <<grid[2], grid[1]>>

\* The entries of the cache that the step drops.
Evicted == {i \in 1..Len(cache) : cache[i].key \notin CacheKeys(cache')}

\* C4 as stated: the cache never holds more than 32 entries, and the entry
\* evicted by an insertion into a full cache is the oldest one, the one that
\* was inserted first.
C4_BoundedEvictsOldestInserted ==
    /\ [](Len(cache) <= 32)
    /\ [][\A i \in Evicted : \A j \in 1..Len(cache) :
              cache[i].ins <= cache[j].ins]_vars

\* C4 amended: the cache never holds more than 32 entries, and the entry
\* evicted by an insertion into a full cache is the least recently used one:
\* a lookup that hits renews its entry.
C4_BoundedEvictsLeastRecentlyUsed ==
    /\ [](Len(cache) <= 32)
    /\ [][\A i \in Evicted : \A j \in 1..Len(cache) :
              cache[i].use <= cache[j].use]_vars

\* The cache is full and has evicted: the second request's entry is gone
\* while the first request's, inserted before it and hit since, is kept.
C4_Witness ==
    /\ Len(cache) = 32
    /\ NthKey(1) \in CacheKeys(cache)
    /\ NthKey(2) \notin CacheKeys(cache)

---------------------------------------------------------------------------
(* Claims about construction                                               *)

SevenPresets ==
    {"classic", "blocks", "simple", "detailed", "matrix", "dots", "lines"}

FiveSchemes == {"true", "neon", "matrix", "vintage", "cyberpunk"}

RampOf(c) == {p \in SevenPresets : CHAR_PRESETS[p] = c.chars}

\* C6: constructing a converter with a preset outside the 7 registered
\* presets, or a scheme outside the 5 registered schemes, fails at once with
\* an error that names the invalid value and lists all valid names, and
\* creates no converter; a converter that exists has registered names, and
\* converting a frame never fails because of a name.
C6_UnknownNamesFailAtConstruction ==
    /\ [](ret.op = "init" /\ ret.args[1] \notin SevenPresets =>
             /\ ret.exc = "ValueError"
             /\ ret.msg.value = ret.args[1]
             /\ Len(ret.msg.valid) = 7 /\ Range(ret.msg.valid) = SevenPresets)
    /\ [](ret.op = "init" /\ ret.args[1] \in SevenPresets
               /\ ret.args[4] \notin FiveSchemes =>
             /\ ret.exc = "ValueError"
             /\ ret.msg.value = ret.args[4]
             /\ Len(ret.msg.valid) = 5 /\ Range(ret.msg.valid) = FiveSchemes)
    /\ [](\A i \in 1..Len(convs) :
             /\ RampOf(convs[i]) # {}
             /\ convs[i].color_scheme_name \in FiveSchemes)
    /\ [](ret.op = "convert" => ret.exc \notin {"ValueError", "KeyError"})
    /\ [][ret'.op = "init" /\ ret'.exc # "" => convs' = convs]_vars

\* A construction with the unknown scheme "bogus" has failed, and an earlier
\* converter is still the only one.
C6_Witness ==
    /\ ret.op = "init" /\ ret.exc = "ValueError"
    /\ ret.msg.value = "bogus" /\ ret.args[4] = "bogus"
    /\ Len(ret.msg.valid) = 5

\* C7: configuring a converter with a non-positive target width fails at
\* configure time; no converter with a non-positive target width exists.
C7_NonPositiveWidthRejected ==
    /\ (ret.op = "init" /\ ret.args[2] <= 0) => ret.exc # ""
    /\ \A i \in 1..Len(convs) : convs[i].width > 0

---------------------------------------------------------------------------
(* Claims about the color schemes                                          *)

SchemeOf(self) == convs[self].color_scheme_name

\* C8: for every registered scheme and every input triple in 0..255, every
\* channel of the output is an integer in 0..255, and the value scaled in the
\* wide type is already within the 8-bit range when it is narrowed: nothing
\* wraps around or underflows.
C8_OutputChannelsInRange ==
    (ret.op \in {"color", "color_again"}) =>
        \A ch \in 1..3 :
            /\ ret.val.fill[ch] \in 0..255
            /\ ret.wide[ch] >= 0 /\ ret.wide[ch] < 2560
            /\ ret.val.fill[ch] = ret.wide[ch] \div 10

\* The neon transform of a white frame: every channel was clamped to 255.
C8_Witness ==
    /\ ret.op = "color" /\ SchemeOf(ret.self) = "neon"
    /\ ret.args[1].fill = <<255, 255, 255>>
    /\ ret.val.fill = <<255, 255, 255>>

\* C9: the true scheme is a pure channel permutation: a cell (B,G,R) comes
\* out as (R,G,B), and the true transform of a converter applied to the
\* result of its previous application gives back the original buffer.
C9_TrueIsSelfInversePermutation ==
    /\ (ret.op = "color" /\ SchemeOf(ret.self) = "true") =>
           LET f == ret.args[1].fill IN ret.val.fill = <<f[3], f[2], f[1]>>
    /\ (ret.op = "color_again" /\ SchemeOf(ret.self) = "true") =>
           ret.val.fill = ret.args[2].fill

ScaledTo255(num, v) == Min((num * v) \div 10, 255)

\* The color the claim gives for a cell of red R, green G, blue B.
ClaimedColor(scheme, R, G, B) ==
    CASE scheme = "matrix"    -> <<0, ScaledTo255(15, G), 0>>
      [] scheme = "neon"      -> <<ScaledTo255(14, R), ScaledTo255(14, G),
                                   ScaledTo255(12, B)>>
      [] scheme = "vintage"   -> <<ScaledTo255(12, R), ScaledTo255(12, G),
                                   (8 * B) \div 10>>
      [] scheme = "cyberpunk" -> <<ScaledTo255(16, R), ScaledTo255(12, G),
                                   ScaledTo255(14, B)>>

\* C10: for every cell of source red R, green G, blue B, the color emitted
\* in the artifact, read in the red, green, blue positions of the escape
\* sequence, is the scheme's: matrix (0, 1.5G, 0); neon (1.4R, 1.4G, 1.2B);
\* vintage (1.2R, 1.2G, 0.8B); cyberpunk (1.6R, 1.2G, 1.4B), floored and
\* clamped to 255.
C10_EmittedColorIsTheSchemes ==
    (ret.op = "convert" /\ ret.exc = ""
        /\ SchemeOf(ret.self) \in {"matrix", "neon", "vintage", "cyberpunk"}) =>
        \A y \in 1..Len(ret.val) :
            LET src == ret.args[3]
                out == ret.val[y].cell
            IN  <<out[1], out[2], out[3]>> =
                    ClaimedColor(SchemeOf(ret.self), src[3], src[2], src[1])

\* C11: for every registered scheme and every cell (B,G,R), the cell of the
\* grid the vectorized transform returns equals, channel position by channel
\* position, the triple the per-cell registry function returns for (B,G,R),
\* narrowed to 8 bits.
C11_VectorizedEqualsPerCell ==
    (ret.op = "color") =>
        LET f == ret.args[1].fill IN
        ret.val.fill =
            Narrowed(RegistryOnCell(SchemeOf(ret.self), f[1], f[2], f[3]))

---------------------------------------------------------------------------
(* Claims about the intensity mapper                                       *)

\* C12: for every registered ramp of length L and every intensity v in
\* 0..255 the mapper yields the index floor(v*(L-1)/255), which lies in
\* 0..L-1; intensity 0 maps to index 0, the ramp's darkest glyph, and
\* intensity 255 to index L-1, the ramp's lightest glyph.
C12_IndexIsScaledIntensity ==
    /\ (ret.op = "map") =>
           LET c == convs[ret.self]
               v == ret.args[1].fill[1]
               L == Len(c.chars)
               i == c.char_indices_buffer.fill[1]
           IN  /\ i = (v * (L - 1)) \div 255
               /\ i \in 0..(L - 1)
               /\ v = 0 => i = 0
               /\ v = 255 => i = L - 1
               /\ c.char_indices_buffer.shape = ret.args[1].shape
    /\ (ret.op = "convert" /\ ret.exc = "") =>
           LET c == convs[ret.self]
               v == ret.args[3][1]
               L == Len(c.chars)
           IN  \A y \in 1..Len(ret.val) :
                   /\ ret.val[y].cell[4] = c.chars[((v * (L - 1)) \div 255) + 1]
                   /\ v = 0 => ret.val[y].cell[4] = c.chars[1]
                   /\ v = 255 => ret.val[y].cell[4] = c.chars[L]

\* White was mapped on the 13-glyph ramp: index 12.
C12_Witness ==
    /\ ret.op = "map" /\ ret.args[1].fill = <<255>>
    /\ Len(convs[ret.self].chars) = 13
    /\ convs[ret.self].char_indices_buffer.fill = <<12>>

---------------------------------------------------------------------------
(* Claims about the scratch buffers                                        *)

\* The size of the frame a convert_frame or color-transform call was given.
FrameSizeOf(r) ==
    IF r.op = "convert" THEN <<r.args[1], r.args[2]>> ELSE r.args[1].shape

\* Two successive calls of the same method on the same converter that both
\* returned.
Successive ==
    /\ ret.op \in {"convert", "color"} /\ ret'.op = ret.op
    /\ ret'.self = ret.self
    /\ ret.exc = "" /\ ret'.exc = ""

\* C13: after a first call, a further convert_frame or color-transform call
\* with a frame of identical dimensions and unchanged configuration leaves
\* the identity of every scratch buffer and of the row builders unchanged,
\* and the color grid returned is the same object as the one returned
\* before, for every color scheme.
C13_SameSizeReusesEveryBuffer ==
    [][(Successive /\ FrameSizeOf(ret') = FrameSizeOf(ret)) =>
           /\ convs'[ret.self].ids = convs[ret.self].ids
           /\ ret.op = "color" => ret'.obj = ret.obj]_vars

\* The shape (rows, columns) of the grid planned for the frame of a
\* convert_frame call r of converter c.
PlannedShape(c, r) ==
    LET grid == CalcBody(c.width, c.height, r.args[1], r.args[2]).val
    IN  <<grid[2], grid[1]>>

ArrayNames ==
    {"resized_buffer", "gray_buffer", "char_buffer", "color_buffer",
     "intensity_buffer", "char_indices_buffer"}

\* C14 as stated: a convert_frame or color-transform call with a frame whose
\* dimensions differ from the previous call's frame reallocates the scratch
\* buffers, so that their identities change, and the color grid returned
\* has the shape of the new input.
C14_OtherSizeReallocates ==
    [][(Successive /\ FrameSizeOf(ret') # FrameSizeOf(ret)) =>
           /\ ret.op = "convert" =>
                  \A n \in Range(BufferNames) :
                      convs'[ret.self].ids[n] # convs[ret.self].ids[n]
           /\ ret.op = "color" =>
                  /\ ret'.obj # ret.obj
                  /\ ret'.val.shape = ret'.args[1].shape]_vars

\* C14 amended: convert_frame reallocates the scratch buffers exactly when
\* the grid planned for the frame differs from the grid planned for the
\* previous frame: then every identity changes and every array has the new
\* grid's shape, and otherwise (a frame of other dimensions planned at the
\* same grid) every identity is kept.  A color-transform call with a frame
\* of another shape returns a newly allocated grid of the new input's shape.
C14_OtherGridReallocates ==
    [][(Successive /\ FrameSizeOf(ret') # FrameSizeOf(ret)) =>
           LET c == convs[ret.self]
               d == convs'[ret.self]
           IN  /\ (ret.op = "convert" /\ PlannedShape(d, ret') # PlannedShape(c, ret)) =>
                      /\ \A n \in Range(BufferNames) : d.ids[n] # c.ids[n]
                      /\ \A n \in ArrayNames : d[n].shape = PlannedShape(d, ret')
                      /\ Len(d.line_builders) = PlannedShape(d, ret')[1]
               /\ (ret.op = "convert" /\ PlannedShape(d, ret') = PlannedShape(c, ret)) =>
                      d.ids = c.ids
               /\ ret.op = "color" =>
                      /\ ret'.obj # ret.obj
                      /\ ret'.val.shape = ret'.args[1].shape
                      /\ d.color_func_vec.func # "matrix_color" =>
                             /\ d.ids.color_buffer = ret'.obj
                             /\ d.color_buffer.shape = ret'.args[1].shape]_vars

\* A second frame, of 200x100, was converted after a smaller one: the
\* buffers are the second set allocated, of 18 rows and 80 columns.
C14_Witness ==
    /\ ret.op = "convert" /\ ret.exc = ""
    /\ ret.args[1] = 200 /\ ret.args[2] = 100
    /\ convs[ret.self].ids.resized_buffer = 11
    /\ convs[ret.self].resized_buffer.shape = <<18, 80>>

---------------------------------------------------------------------------
(* Claims about the artifact                                               *)

\* C15: for every convert_frame call, after any earlier calls with frames of
\* other sizes, the artifact has exactly gridHeight rows in the top-to-bottom
\* order of the input, row y consists of exactly gridWidth colored cells
\* built from index row y and color row y of the current frame, never of an
\* earlier one, and every row ends with the color reset.
C15_RowsOfTheCurrentFrame ==
    /\ (ret.op = "convert" /\ ret.args[1] > 0 /\ ret.args[2] > 0) =>
           LET c == convs[ret.self]
               shape == PlannedShape(c, ret)
           IN  /\ ret.exc = ""
               /\ Len(ret.val) = shape[1]
               /\ \A y \in 1..Len(ret.val) :
                      ret.val[y] = Row(shape[2], EmittedCell(c, ret.args[3]))
    /\ (ret.op = "convert_2x2") =>
           LET c == convs[ret.self]
               shape == PlannedShape(c, ret)
               q == ret.args[3]
           IN  /\ ret.exc = ""
               /\ Len(ret.val) = shape[1]
               /\ \A y \in 1..Len(ret.val) :
                      ret.val[y].cols = shape[2] /\ ret.val[y].reset
               /\ ret.val[1].cell = EmittedCell(c, q[1][1])
               /\ ret.val[1].right = EmittedCell(c, q[1][2])
               /\ ret.val[shape[1]].cell = EmittedCell(c, q[2][1])
               /\ ret.val[shape[1]].right = EmittedCell(c, q[2][2])

\* A 4x3 frame was converted into 5 rows after a frame converted into 18.
C15_Witness ==
    /\ ret.op = "convert" /\ ret.exc = ""
    /\ ret.args[1] = 4 /\ ret.args[2] = 3 /\ ret.args[3] = <<10, 100, 200>>
    /\ Len(ret.val) = 5
    /\ convs[ret.self].ids.resized_buffer = 11

\* C16: a failed convert_frame call leaves the converter in its prior
\* state: the remembered last frame and target dimensions and all scratch
\* buffers and row builders are the same as before the call.
C16_FailedCallChangesNothing ==
    [][(ret'.op = "convert" /\ ret'.exc # "") =>
           LET c == convs[ret'.self]
               d == convs'[ret'.self]
           IN  /\ d.last_frame_dims = c.last_frame_dims
               /\ d.last_target_dims = c.last_target_dims
               /\ d.ids = c.ids
               /\ \A n \in ArrayNames : d[n] = c[n]
               /\ d.line_builders = c.line_builders]_vars

---------------------------------------------------------------------------
(* Claims about determinism                                                *)

\* A newly constructed converter of the configuration of c.
FreshLike(c) ==
    [NewConverter("classic", c.width, c.height, c.color_scheme_name)
       EXCEPT !.chars = c.chars, !.char_range = c.char_range]

SameConfiguration(c, d) ==
    /\ c.chars = d.chars
    /\ c.width = d.width /\ c.height = d.height
    /\ c.color_scheme_name = d.color_scheme_name

\* C17: two converters of identical configuration that are given the same
\* frame produce identical grid dimensions, identical index grids and
\* identical artifacts, whatever frames each of them processed before: what
\* a call returns is what a new converter returns for the frame, and two
\* converters whose last frame was the same hold the same grid, indices and
\* rows.  Two planner calls with identical inputs return identical outputs.
C17_HistoryIndependent ==
    /\ (ret.op = "convert") =>
           LET c == convs[ret.self]
               fresh == ConvertSteps(FreshLike(c),
                            CalcBody(c.width, c.height, ret.args[1], ret.args[2]),
                            ret.args[1], ret.args[2], ret.args[3])
           IN  /\ ret.exc = fresh.exc
               /\ ret.val = fresh.val
               /\ c.resized_buffer.shape = fresh.conv.resized_buffer.shape
               /\ c.char_indices_buffer = fresh.conv.char_indices_buffer
    /\ \A i, j \in 1..Len(convs) :
           (/\ SameConfiguration(convs[i], convs[j])
            /\ convs[i].last_frame_dims # None
            /\ convs[i].last_frame_dims = convs[j].last_frame_dims
            /\ convs[i].resized_buffer.fill = convs[j].resized_buffer.fill) =>
               /\ convs[i].resized_buffer.shape = convs[j].resized_buffer.shape
               /\ convs[i].char_indices_buffer = convs[j].char_indices_buffer
               /\ convs[i].line_builders = convs[j].line_builders
    /\ (ret.op = "plan") =>
           LET c == convs[ret.self]
               r == CalcBody(c.width, c.height, ret.args[1], ret.args[2])
           IN  ret.exc = r.exc /\ ret.val = r.val

\* Both converters last converted the same 4x3 frame, the first after a
\* frame of another size and the second as its first frame.
C17_Witness ==
    /\ Len(convs) = 2
    /\ ret.op = "convert" /\ ret.exc = "" /\ ret.args[1] = 4
    /\ convs[1].last_frame_dims = <<4, 3>>
    /\ convs[2].last_frame_dims = <<4, 3>>
    /\ convs[1].resized_buffer.fill = convs[2].resized_buffer.fill
    /\ convs[1].ids.resized_buffer = 11
    /\ convs[2].ids.resized_buffer = 3

\* C19: with no target height and a source at least as wide as the target
\* width, _resize_frame returns a grid as wide as the target width and of
\* the aspect-preserving height with a cell-aspect factor of 0.5,
\* floor(width * srcHeight / srcWidth * 0.5); a 200x100 source at a target
\* width of 40 or 80 gives 40x10 or 80x20.  Stated where that grid is no
\* smaller than the minimums of the planner.
C19_HeightWithHalfFactor ==
    (/\ ret.op = "resize" /\ ret.exc = ""
     /\ convs[ret.self].height = None
     /\ ret.args[1] >= convs[ret.self].width
     /\ convs[ret.self].width >= 10
     /\ IntTimesHalf(convs[ret.self].width, ret.args[2], ret.args[1]) >= 5)
    => ret.val.shape =
          <<IntTimesHalf(convs[ret.self].width, ret.args[2], ret.args[1]),
            convs[ret.self].width>>

\* The call recorded converted the 2x2 frame [red, black; black, green] on
\* a converter of target width 2 and no target height, and returned.
RedQuad == <<<<Red, Black>>, <<Black, Green>>>>

ConvertedRedQuad ==
    /\ ret.op = "convert_2x2" /\ ret.exc = ""
    /\ ret.args[3] = RedQuad
    /\ convs[ret.self].width = 2
    /\ convs[ret.self].height = None

\* C20 as stated: converting the 2x2 frame [red, black; black, green] with
\* target width 2 and no target height yields a grid exactly 2 cells wide,
\* whose top-left cell carries the glyph of red's luma-quantized index and,
\* under the true scheme, the color (255, 0, 0).
C20_GridTwoCellsWide ==
    ConvertedRedQuad =>
        LET c == convs[ret.self] IN
        /\ c.resized_buffer.shape[2] = 2
        /\ ret.val[1].cols = 2
        /\ ret.val[1].cell[4] = c.chars[CharIndex(Luma(Red), c.char_range) + 1]
        /\ c.color_func_vec.func = "true_color" =>
               <<ret.val[1].cell[1], ret.val[1].cell[2], ret.val[1].cell[3]>>
                   = <<255, 0, 0>>

\* C20, amended: the grid is the planner's minimum, 10 cells wide and 5
\* high, the source being enlarged; its top-left cell is the source's
\* top-left cell, so it carries the glyph of red's luma-quantized index
\* (luma 76, index 0 of the matrix ramp, glyph "0") and, under the true
\* scheme, the color (255, 0, 0).
C20_MinimumGridTopLeftIsRed ==
    ConvertedRedQuad =>
        LET c == convs[ret.self] IN
        /\ c.resized_buffer.shape = <<5, 10>>
        /\ ret.val[1].cols = 10
        /\ ret.val[1].cell[4] = c.chars[CharIndex(Luma(Red), c.char_range) + 1]
        /\ c.chars = CHAR_PRESETS.matrix => ret.val[1].cell[4] = "0"
        /\ c.color_func_vec.func = "true_color" =>
               <<ret.val[1].cell[1], ret.val[1].cell[2], ret.val[1].cell[3]>>
                   = <<255, 0, 0>>

C20_Witness ==
    /\ ConvertedRedQuad
    /\ convs[ret.self].chars = CHAR_PRESETS.matrix
    /\ convs[ret.self].color_func_vec.func = "true_color"
    /\ ret.val[1].cols = 10
    /\ ret.val[1].cell = <<255, 0, 0, "0">>

---------------------------------------------------------------------------
(* Claims about the application                                            *)

\* The call recorded in r had no frame available: there was no capture, or
\* the read did not yield a frame.
NoFrameAvailable(r) == r.args[1] = None \/ r.args[2] # "frame"

\* C18: whenever no frame is available, because the camera read fails or
\* the camera is not initialized, capture_frame raises CameraError, no
\* conversion is performed for that display tick, and the failure is made
\* visible: error_message is set.
C18_NoFrameIsReported ==
    /\ (ret.op = "capture_frame" /\ NoFrameAvailable(ret)) =>
           /\ ret.exc = "CameraError"
           /\ app.error_message # None
    /\ (ret.op = "print_display" /\ ret.val.captured /\ NoFrameAvailable(ret)) =>
           /\ ret.val.raised = "CameraError"
           /\ ~ret.val.converted
           /\ app.error_message # None

\* No minimum applies to the grid planned for a source fw x fh under the
\* target width and height <<h>>: the width and the height computed are
\* already 10 and 5 or more.
NoMinimumApplies(width, h, fw, fh) ==
    /\ Min(Min(width, fw), IntOverAspect(Min(h, fh), fh, fw)) >= 10
    /\ Min(h, fh) >= 5

\* C23: when a target height is configured, the planned grid maintains the
\* source aspect ratio under the cell-aspect correction: for every source
\* size and every target width and height for which no minimum clamp
\* applies, gridHeight differs from
\* floor(gridWidth * (srcHeight / srcWidth) * 0.45) by at most one row.
C23_HeightFollowsWidthWithinOneRow ==
    (/\ PlanReturned /\ ret.args[1] > 0 /\ ret.args[2] > 0
     /\ convs[ret.self].height # None
     /\ NoMinimumApplies(convs[ret.self].width, convs[ret.self].height[1],
                         ret.args[1], ret.args[2]))
    => LET expected == IntTimesAspect(ret.val[1], ret.args[2], ret.args[1])
       IN  /\ ret.val[2] - expected <= 1
           /\ expected - ret.val[2] <= 1

\* C22: _frame_to_grayscale and _map_intensity_to_chars return a non-null
\* grid with the same height and width as their input in every converter
\* state, including a freshly constructed converter on which no frame has
\* been resized yet.
C22_StagesReturnGridOfInputShape ==
    (ret.op \in {"gray", "map"}) =>
        /\ ret.exc = ""
        /\ ret.val # None
        /\ ret.val.shape = ret.args[1].shape

---------------------------------------------------------------------------
(* Claims about the status display                                         *)

\* C21: when _calculate_fps is called with frame_count = n and at least one
\* second has elapsed since last_frame_time, fps becomes n divided by the
\* elapsed time; 30 counted frames over exactly 1 second give fps = 30.0.
C21_FpsIsCountOverElapsed ==
    (ret.op = "calculate_fps" /\ ret.args[2] >= 1000) =>
        /\ status.fps.num * ret.args[2] = ret.args[1] * 1000 * status.fps.den
        /\ (ret.args[1] = 30 /\ ret.args[2] = 1000) =>
               status.fps.num = 30 * status.fps.den

---------------------------------------------------------------------------
(* Claims about run() and the resize handler                               *)

\* Activation i is a print_display whose convert_frame call has started
\* and has not returned.
Converting(i) == stack[i].fn = "print_display" /\ stack[i].pc = "converting"

\* C24: with the SIGWINCH handler able to interrupt the main loop at any
\* point, no convert_frame call ever starts on a converter instance while
\* another convert_frame call on that same instance is still in progress.
C24_NoOverlappingConversions ==
    \A i, j \in 1..Len(stack) :
        (i < j /\ Converting(i) /\ Converting(j)) =>
            stack[i].conv # stack[j].conv

\* The handler converts a frame while the conversion it interrupted is in
\* progress.
C24_Witness ==
    \E i, j \in 1..Len(stack) :
        /\ i < j /\ Converting(i) /\ Converting(j)
        /\ \E k \in 1..Len(stack) : i < k /\ k < j
                                    /\ stack[k].fn = "handle_resize"

\* Converter c has the configuration create_converter gives for the state
\* of application a.
BuiltFrom(c, a) ==
    /\ c.chars = CHAR_PRESETS[a.preset]
    /\ c.color_scheme_name = a.color_scheme
    /\ c.width = Max(a.terminal_size[1] - 3, 40)
    /\ c.height = <<IF a.show_status THEN Max(a.terminal_size[2] - 2, 10)
                    ELSE Max(a.terminal_size[2] - 1, 10)>>

\* C25: whenever print_display converts a frame, after any sequence of key
\* commands, main-loop resize checks and SIGWINCH handler runs interleaved
\* at any point, the converter in use was built from the application's
\* current state: the ramp of the current preset, the current color
\* scheme, width max(columns - 3, 40) and height max(rows - 2, 10) with the
\* status bar and max(rows - 1, 10) without, for the current terminal_size.
C25_ConverterInUseIsCurrent ==
    (ret.op = "convert_start") => BuiltFrom(convs[ret.self], app)

Count(log, what) == Cardinality({i \in 1..Len(log) : log[i] = what})

\* `a` is logged, and before the first `b`.
LoggedBefore(log, a, b) ==
    \E i \in 1..Len(log) :
        /\ log[i] = a
        /\ \A j \in 1..i : log[j] # b

\* What C27 says of an execution of run() that has ended, and of the 'q'
\* key at any time: after it is read no frame is displayed and no key
\* handled by the loop, which is left.
CleanedUpOnce ==
    /\ Count(env.log, "cleanup") = 1
    /\ app.cap # <<"opened">>
    /\ Count(env.log, "saved") > 0 => LoggedBefore(env.log, "restored", "cleanup")

QuitLeavesLoop ==
    (stack # <<>> /\ ~stack[1].running) =>
        stack[1].pc \in {"loop", "finally", "cleanup"}

====
